---- MODULE Spec2Model ----
(***************************************************************************)
(* The IMAP/SMTP mail adapter of apps/server/src/lib/driver/imap.ts        *)
(* (class ImapMailManager) as a state machine.  The server side (the       *)
(* mailboxes, their messages and flags, the SMTP relay, the connection     *)
(* store) is the environment: every protocol command the adapter issues    *)
(* gets an outcome chosen by the environment.  One action is one public    *)
(* operation of the adapter, run from its call to its result.              *)
(***************************************************************************)
EXTENDS Integers, Sequences, FiniteSets, TLC

(***************************************************************************)
(* Bounds of the model.                                                    *)
(***************************************************************************)
MaxUid == 2          \* Spec: the UIDs of a mailbox are drawn from 1..MaxUid
MaxCalls == 2        \* Spec: the number of public calls of one behaviour
MaxPageSize == 2     \* Spec: maxResults is drawn from 1..MaxPageSize
PagerMaxUid == 9     \* PagerSpec: the UIDs of INBOX are drawn from 1..PagerMaxUid
PagerMaxMsgs == 4    \* PagerSpec: INBOX holds at most this many messages
PagerMaxPageSize == 3 \* PagerSpec: maxResults is drawn from 1..PagerMaxPageSize
PagerMaxAcc == 7     \* PagerSpec: the client records at most this many thread ids
MaxNameLen == 3      \* IdSpec: a mailbox name has 1..MaxNameLen characters
MaxIdUid == 12       \* IdSpec: the UIDs of the ids built are drawn from 1..MaxIdUid
MaxDepth == 3        \* LabelsSpec: the mailbox tree has at most this many levels
MaxLag == 1          \* count: the later selects answered before a folder's body reads the box

VARIABLES
  mbox,       \* server: mailbox name -> set of the UIDs of its messages
  order,      \* server: mailbox name -> its UIDs in the order the server lists and delivers them
  boxes,      \* server: the mailboxes that exist
  uidNext,    \* server: mailbox name -> the UID the next arriving message gets
  flags,      \* server: the <<mailbox, uid, flag>> that are set
  conn,       \* this.imap: "disconnected" or "ready"
  selected,   \* this.imap: the selected mailbox, NoBox when none
  stored,     \* connection store: TRUE while the account's connection record exists
  ncalls,     \* the number of public calls made so far
  call,       \* the last public call: its input, the commands issued, its outcome
  pgOp,       \* paging client: the operation it pages with, "list" or "listDrafts"
  pgState,    \* paging client: "idle", "paging", "done"
  pgTok,      \* paging client: the nextPageToken of the previous page
  pgSize,     \* paging client: the maxResults it pages with
  pgAcc,      \* paging client: the thread ids of all pages so far, concatenated
  pgFull,     \* paging client: TRUE once pgAcc stopped recording (PagerMaxAcc)
  pgOdd,      \* paging client: TRUE when it has made an odd number of calls
  db          \* database: the tables connection and imapConnection, users' defaultConnectionId

pager == <<pgOp, pgState, pgTok, pgSize, pgAcc, pgFull, pgOdd>>
vars == <<mbox, order, boxes, uidNext, flags, conn, selected, stored, ncalls,
          call, pgOp, pgState, pgTok, pgSize, pgAcc, pgFull, pgOdd, db>>

(***************************************************************************)
(* Values.                                                                 *)
(***************************************************************************)
Mailboxes == {"INBOX", "Drafts", "Sent", "Trash"}
NoBox == "(none)"
\* null, for a page token: the empty string is as falsy as null (imap.ts:324)
Null == <<>>
\* the words withErrorHandler looks for in error.message (imap.ts:1017, 1041)
Keywords == {"quota", "storage", "not supported", "capability"}

Min(a, b) == IF a <= b THEN a ELSE b
Range(s) == {s[i] : i \in 1..Len(s)}
NoDup(s) == \A i, j \in 1..Len(s) : s[i] = s[j] => i = j
\* all orders in which the elements of S can arrive
Orders(S) == {p \in [1..Cardinality(S) -> S] : \A i, j \in 1..Cardinality(S) : p[i] = p[j] => i = j}

(***************************************************************************)
(* Errors.  A thrown value is a record: code is error.code ("undefined"    *)
(* when absent), hasMsg says whether error.message is a string, msg is the *)
(* set of Keywords that string includes.  std marks a StandardizedError,   *)
(* whose status, fatal and operation are set by withErrorHandler.          *)
(***************************************************************************)
Raw(code, hasMsg, msg) ==
  [std |-> FALSE, code |-> code, hasMsg |-> hasMsg, msg |-> msg,
   respStatus |-> "undefined", status |-> 0, fatal |-> FALSE, operation |-> ""]
NoError == Raw("(no error)", FALSE, {})
\* what the node-imap transport, the SMTP transport and the store may throw
RawErrors ==
  { Raw("ECONNREFUSED", TRUE, {}),
    Raw("AUTHENTICATIONFAILED", TRUE, {}),
    Raw("undefined", FALSE, {}),
    Raw("undefined", TRUE, {"quota"}) }
\* new Error('Message not found'), new Error('Draft not found')
NotFoundError == Raw("undefined", TRUE, {})
\* the server's answer to a select of, or a move into, a mailbox it does not have
NoSuchMailbox == Raw("undefined", TRUE, {})

(***************************************************************************)
(* The environment of one call.  The failAt-th command the call issues     *)
(* fails with err and the failAt2-th with err2 (0: none does); storeErr is *)
(* the outcome of deleteActiveConnection, should the call request it;      *)
(* match is the set of UIDs a SUBJECT criterion matches.                   *)
(***************************************************************************)
Outcome(c, env) ==
  LET n == Len(c.log) + 1
  IN  IF env.failAt = n THEN env.err
      ELSE IF env.failAt2 = n THEN env.err2
      ELSE NoError

\* the commands issued so far, with the outcome of each
Logged(c, cmd, box, uids, e) ==
  [c EXCEPT !.log = Append(@, [cmd |-> cmd, box |-> box, uids |-> uids, ok |-> (e = NoError)])]

\* the state a call starts from: the server, this.imap, nothing issued,
\* nothing thrown, and the call's locals (the UIDs found, the messages
\* fetched, the mailbox names read, the counts made) still empty
World ==
  [mbox |-> mbox, order |-> order, boxes |-> boxes, uidNext |-> uidNext, flags |-> flags,
   conn |-> conn, selected |-> selected, stored |-> stored,
   log |-> <<>>, thrown |-> NoError,
   uids |-> <<>>, messages |-> <<>>, names |-> <<>>, counts |-> <<>>]

(***************************************************************************)
(* The private helpers of ImapMailManager.  Each takes the state c the     *)
(* call has reached and returns the state after it; once a value has been  *)
(* thrown (c.thrown) the awaits that follow are skipped.                   *)
(***************************************************************************)
\* connectImap: imap.connect(), resolved by 'ready', rejected by 'error'.
\* A new connection has no mailbox selected.
connectImap(c, env) ==
  IF c.thrown # NoError THEN c
  ELSE LET e == Outcome(c, env)
           d == Logged(c, "connect", NoBox, <<>>, e)
       IN  IF e = NoError
           THEN [d EXCEPT !.conn = "ready", !.selected = NoBox]
           ELSE [d EXCEPT !.conn = "disconnected", !.selected = NoBox, !.thrown = e]

\* openMailbox: imap.openBox(mailbox, false, cb).  A failed select leaves no
\* mailbox selected.
openMailbox(c, env, mailbox) ==
  IF c.thrown # NoError THEN c
  ELSE LET e == IF mailbox \notin c.boxes THEN NoSuchMailbox ELSE Outcome(c, env)
           d == Logged(c, "openBox", mailbox, <<>>, e)
       IN  IF e = NoError
           THEN [d EXCEPT !.selected = mailbox]
           ELSE [d EXCEPT !.selected = NoBox, !.thrown = e]

\* the UIDs of S among those of the selected mailbox, in the server's order
InServerOrder(c, S) ==
  LET rank == IF c.selected = NoBox THEN <<>> ELSE c.order[c.selected]
      idx == {i \in 1..Len(rank) : rank[i] \in S}
      \* the i-th index of idx, in increasing order
      nth[i \in 1..Cardinality(idx)] ==
        CHOOSE k \in idx : Cardinality({j \in idx : j <= k}) = i
  IN  [i \in 1..Cardinality(idx) |-> rank[nth[i]]]

\* the UIDs a search of the selected mailbox returns: all of them for
\* ['ALL'], those in match for ['ALL', ['SUBJECT', q]]
SearchResult(c, q, env) ==
  LET all == IF c.selected = NoBox THEN {} ELSE c.mbox[c.selected]
  IN  InServerOrder(c, IF q THEN all \cap env.match ELSE all)

\* searchEmails: imap.search(criteria, cb); c.uids is what it resolves with
searchEmails(c, env, q) ==
  IF c.thrown # NoError THEN c
  ELSE LET e == Outcome(c, env)
           d == Logged(c, "search", c.selected, <<>>, e)
       IN  IF e = NoError
           THEN [d EXCEPT !.uids = SearchResult(c, q, env)]
           ELSE [d EXCEPT !.thrown = e]

\* the sequence number of the message with UID u in mailbox box: sequence
\* numbers count the messages of the mailbox in ascending UID order
SeqNo(c, box, u) == Cardinality({v \in c.mbox[box] : v <= u})

\* the requested UIDs that exist, in the order the server delivers them
Delivered(c, uids, env) ==
  InServerOrder(c, IF c.selected = NoBox THEN {} ELSE Range(uids) \cap c.mbox[c.selected])

\* imap.fetch(uids, options): one {uid: seqno, raw} per 'message' event in
\* the order of arrival ("of" is the UID of the message raw belongs to),
\* rejected by the fetch's 'error'.  markSeen sets \Seen on what it fetches.
imapFetch(c, env, uids, markSeen) ==
  LET e == Outcome(c, env)
      d == Logged(c, "fetch", c.selected, uids, e)
      got == Delivered(c, uids, env)
      seen == IF markSeen THEN {<<c.selected, got[i], "\\Seen">> : i \in 1..Len(got)} ELSE {}
  IN  IF e = NoError
      THEN [d EXCEPT !.flags = @ \cup seen,
                     !.messages = [i \in 1..Len(got) |->
                                     [uid |-> SeqNo(c, c.selected, got[i]), of |-> got[i]]]]
      ELSE [d EXCEPT !.thrown = e]

\* a fetchMessages that hands an empty UID list to imap.fetch
fetchMessagesNoGuard(c, env, uids, markSeen) ==
  IF c.thrown # NoError THEN c
  ELSE imapFetch(c, env, uids, markSeen)

\* fetchMessages: resolves [] for an empty list without issuing a command;
\* c.messages is what it resolves with
fetchMessages(c, env, uids, markSeen) ==
  IF c.thrown # NoError THEN c
  ELSE IF Len(uids) = 0 THEN c
  ELSE imapFetch(c, env, uids, markSeen)

\* parseEmail over the fetched messages: simpleParser(raw), rethrown on failure
parseEmail(c, env) ==
  IF c.thrown # NoError \/ Len(c.messages) = 0 THEN c
  ELSE LET e == Outcome(c, env)
           d == Logged(c, "simpleParser", NoBox, <<>>, e)
       IN  IF e = NoError THEN d ELSE [d EXCEPT !.thrown = e]

\* if (messages.length === 0) throw new Error(...)
messageOrThrow(c, e) ==
  IF c.thrown = NoError /\ Len(c.messages) = 0 THEN [c EXCEPT !.thrown = e] ELSE c

\* the sequence s without the element x
Without(s, x) == SelectSeq(s, LAMBDA y : y # x)

\* imap.move([uid], target, cb) on the selected mailbox.  The server refuses
\* a target it does not have; a moved message leaves the selected mailbox
\* and arrives in target under target's next UID, its flags kept.  A UID the
\* mailbox does not hold moves nothing.
imapMove(c, env, uid, target) ==
  IF c.thrown # NoError THEN c
  ELSE LET e == IF target \notin c.boxes THEN NoSuchMailbox ELSE Outcome(c, env)
           d == Logged(c, "move", target, <<uid>>, e)
           src == c.selected
           new == c.uidNext[target]
       IN  IF e # NoError THEN [d EXCEPT !.thrown = e]
           ELSE IF src = NoBox \/ uid \notin c.mbox[src] THEN d
           ELSE [d EXCEPT
                   !.mbox = [m \in Mailboxes |->
                               IF m = target THEN (c.mbox[m] \ (IF m = src THEN {uid} ELSE {})) \cup {new}
                               ELSE IF m = src THEN c.mbox[m] \ {uid}
                               ELSE c.mbox[m]],
                   !.order = [m \in Mailboxes |->
                               IF m = target
                               THEN Append(IF m = src THEN Without(c.order[m], uid) ELSE c.order[m], new)
                               ELSE IF m = src THEN Without(c.order[m], uid)
                               ELSE c.order[m]],
                   !.uidNext = [c.uidNext EXCEPT ![target] = new + 1],
                   !.flags = {t \in c.flags : ~(t[1] = src /\ t[2] = uid)}
                             \cup {<<target, new, t[3]>> : t \in {x \in c.flags : x[1] = src /\ x[2] = uid}}]

\* imap.addFlags([uid], flag, cb) on the selected mailbox
imapAddFlags(c, env, uid, flag) ==
  IF c.thrown # NoError THEN c
  ELSE LET e == Outcome(c, env)
           d == Logged(c, "addFlags", flag, <<uid>>, e)
       IN  IF e # NoError THEN [d EXCEPT !.thrown = e]
           ELSE IF c.selected = NoBox \/ uid \notin c.mbox[c.selected] THEN d
           ELSE [d EXCEPT !.flags = @ \cup {<<c.selected, uid, flag>>}]

\* imap.delFlags([uid], flag, cb) on the selected mailbox
imapDelFlags(c, env, uid, flag) ==
  IF c.thrown # NoError THEN c
  ELSE LET e == Outcome(c, env)
           d == Logged(c, "delFlags", flag, <<uid>>, e)
       IN  IF e # NoError THEN [d EXCEPT !.thrown = e]
           ELSE [d EXCEPT !.flags = @ \ {<<c.selected, uid, flag>>}]

\* sanitizeTipTapHtml(data.message): the step of prepareEmail and
\* createDraft that may throw
sanitizeTipTapHtml(c, env) ==
  IF c.thrown # NoError THEN c
  ELSE LET e == Outcome(c, env)
           d == Logged(c, "sanitizeTipTapHtml", NoBox, <<>>, e)
       IN  IF e = NoError THEN d ELSE [d EXCEPT !.thrown = e]

\* smtp.sendMail(emailContent): one transmission of the message to its
\* recipients over SMTP
sendMail(c, env) ==
  IF c.thrown # NoError THEN c
  ELSE LET e == Outcome(c, env)
           d == Logged(c, "sendMail", NoBox, <<>>, e)
       IN  IF e = NoError THEN d ELSE [d EXCEPT !.thrown = e]

\* The boxes object of imap.getBoxes: a sequence of entries, each a mailbox
\* name with its children, in the order Object.entries yields them.
\* This one is the object of a server on which no mailbox is nested.
RECURSIVE FlatTree(_)
FlatTree(S) ==
  IF S = {} THEN <<>>
  ELSE LET n == CHOOSE x \in S : TRUE
       IN  <<[name |-> n, children |-> Null]>> \o FlatTree(S \ {n})

\* extractBoxes that stops at the mailboxes of the top level
extractBoxesTopLevel(prefix, boxObj) ==
  [i \in 1..Len(boxObj) |-> IF prefix # <<>> THEN prefix \o <<boxObj[i].name>> ELSE <<boxObj[i].name>>]

\* extractBoxes(prefix, boxObj) of getUserLabels: the names pushed, in order;
\* a name is the sequence of its parts and separators
RECURSIVE extractBoxes(_, _)
extractBoxes(prefix, boxObj) ==
  IF Len(boxObj) = 0 THEN <<>>
  ELSE LET box == Head(boxObj)
           fullName == IF prefix # <<>> THEN prefix \o <<box.name>> ELSE <<box.name>>
       IN  <<fullName>>
           \o (IF box.children # Null THEN extractBoxes(fullName \o <<"/">>, box.children) ELSE <<>>)
           \o extractBoxes(prefix, Tail(boxObj))

\* imap.getBoxes(cb), answered with the object tree: c.names is the names
\* extracted from it
imapGetBoxes(c, env, tree) ==
  IF c.thrown # NoError THEN c
  ELSE LET e == Outcome(c, env)
           d == Logged(c, "getBoxes", NoBox, <<>>, e)
       IN  IF e = NoError THEN [d EXCEPT !.names = extractBoxes(<<>>, tree)]
           ELSE [d EXCEPT !.thrown = e]

\* imap.addBox(name, cb): refused for a mailbox that exists
imapAddBox(c, env, name) ==
  IF c.thrown # NoError THEN c
  ELSE LET e == IF name \in c.boxes THEN NoSuchMailbox ELSE Outcome(c, env)
           d == Logged(c, "addBox", name, <<>>, e)
       IN  IF e # NoError THEN [d EXCEPT !.thrown = e]
           ELSE [d EXCEPT !.boxes = @ \cup {name}]

\* imap.delBox(name, cb): refused for a mailbox that does not exist; the
\* messages of a deleted mailbox are gone
imapDelBox(c, env, name) ==
  IF c.thrown # NoError THEN c
  ELSE LET e == IF name \notin c.boxes THEN NoSuchMailbox ELSE Outcome(c, env)
           d == Logged(c, "delBox", name, <<>>, e)
       IN  IF e # NoError THEN [d EXCEPT !.thrown = e]
           ELSE [d EXCEPT !.boxes = @ \ {name},
                          !.mbox = [@ EXCEPT ![name] = {}],
                          !.order = [@ EXCEPT ![name] = <<>>],
                          !.flags = {t \in @ : t[1] # name}]

\* imap.renameBox(old, new, cb): refused when old does not exist or new
\* does; the messages and their flags follow the name
imapRenameBox(c, env, old, new) ==
  IF c.thrown # NoError THEN c
  ELSE LET e == IF old \notin c.boxes \/ new \in c.boxes THEN NoSuchMailbox ELSE Outcome(c, env)
           d == Logged(c, "renameBox", new, <<>>, e)
       IN  IF e # NoError THEN [d EXCEPT !.thrown = e]
           ELSE [d EXCEPT !.boxes = (@ \ {old}) \cup {new},
                          !.mbox = [@ EXCEPT ![new] = c.mbox[old], ![old] = {}],
                          !.order = [@ EXCEPT ![new] = c.order[old], ![old] = <<>>],
                          !.uidNext = [@ EXCEPT ![new] = c.uidNext[old]],
                          !.flags = {t \in @ : t[1] # old} \cup
                                    {<<new, t[2], t[3]>> : t \in {x \in c.flags : x[1] = old}}]

\* the commands of the log that are cmd, in the order issued
Issued(log, cmd) == SelectSeq(log, LAMBDA x : x.cmd = cmd)
\* result.messageId of the n-th transmission of a call: transmissions are
\* told apart by their place among the call's sendMail commands
MessageId(n) == <<"messageId", n>>

(***************************************************************************)
(* withErrorHandler: the catch block every public operation runs in.       *)
(***************************************************************************)
\* FatalErrors of ./utils, as the test suite declares it
FatalErrors == {"invalid_grant", "invalid_credentials"}

StandardizedError(code, status, operation, hasMsg, msg, fatal) ==
  [std |-> TRUE, code |-> code, hasMsg |-> hasMsg, msg |-> msg,
   respStatus |-> "undefined", status |-> status, fatal |-> fatal, operation |-> operation]

\* error.message?.includes(w)
Includes(error, w) == error.hasMsg /\ w \in error.msg
\* the Keywords a message built around ${error.message} includes
Quoted(error) == IF error.hasMsg THEN error.msg ELSE {}

\* error.code?.startsWith('SMTP'), on the codes of the model
StartsWithSMTP(code) == code \in {"SMTP", "SMTP_TIMEOUT", "SMTPFAIL"}

\* the catch block with the TLS branch marking its error fatal
ClassifyTlsFatal(operation, error) ==
  IF error.code \in {"ECONNREFUSED", "ETIMEDOUT", "ENOTFOUND"}
  THEN StandardizedError("CONNECTION_REFUSED", 503, operation, TRUE, Quoted(error), TRUE)
  ELSE IF error.code \in {"AUTHENTICATIONFAILED", "INVALIDCREDENTIALS"}
  THEN StandardizedError("AUTHENTICATION_ERROR", 401, operation, TRUE, {}, TRUE)
  ELSE IF error.code \in {"ETLSNOTCAPABLE", "ESSLNOTCAPABLE"}
  THEN StandardizedError("TLS_ERROR", 502, operation, TRUE, {}, TRUE)
  ELSE IF Includes(error, "quota") \/ Includes(error, "storage")
  THEN StandardizedError("QUOTA_ERROR", 507, operation, TRUE, {"quota", "storage"}, FALSE)
  ELSE IF StartsWithSMTP(error.code)
  THEN StandardizedError("SMTP_ERROR", 502, operation, TRUE, Quoted(error), FALSE)
  ELSE IF Includes(error, "not supported") \/ Includes(error, "capability")
  THEN StandardizedError("CAPABILITY_ERROR", 501, operation, TRUE, Quoted(error), FALSE)
  ELSE StandardizedError("UNKNOWN_IMAP_ERROR", 500, operation, TRUE, Quoted(error),
                         error.code \in FatalErrors \/ error.respStatus \in FatalErrors)

\* the catch block with the capability branch tried ahead of the SMTP branch
ClassifyCapabilityFirst(operation, error) ==
  IF error.code \in {"ECONNREFUSED", "ETIMEDOUT", "ENOTFOUND"}
  THEN StandardizedError("CONNECTION_REFUSED", 503, operation, TRUE, Quoted(error), TRUE)
  ELSE IF error.code \in {"AUTHENTICATIONFAILED", "INVALIDCREDENTIALS"}
  THEN StandardizedError("AUTHENTICATION_ERROR", 401, operation, TRUE, {}, TRUE)
  ELSE IF error.code \in {"ETLSNOTCAPABLE", "ESSLNOTCAPABLE"}
  THEN StandardizedError("TLS_ERROR", 502, operation, TRUE, {}, FALSE)
  ELSE IF Includes(error, "quota") \/ Includes(error, "storage")
  THEN StandardizedError("QUOTA_ERROR", 507, operation, TRUE, {"quota", "storage"}, FALSE)
  ELSE IF Includes(error, "not supported") \/ Includes(error, "capability")
  THEN StandardizedError("CAPABILITY_ERROR", 501, operation, TRUE, Quoted(error), FALSE)
  ELSE IF StartsWithSMTP(error.code)
  THEN StandardizedError("SMTP_ERROR", 502, operation, TRUE, Quoted(error), FALSE)
  ELSE StandardizedError("UNKNOWN_IMAP_ERROR", 500, operation, TRUE, Quoted(error),
                         error.code \in FatalErrors \/ error.respStatus \in FatalErrors)

\* the StandardizedError the catch block builds for error, first match first
Classify(operation, error) ==
  IF error.code \in {"ECONNREFUSED", "ETIMEDOUT", "ENOTFOUND"}
  THEN StandardizedError("CONNECTION_REFUSED", 503, operation, TRUE, Quoted(error), TRUE)
  ELSE IF error.code \in {"AUTHENTICATIONFAILED", "INVALIDCREDENTIALS"}
  THEN StandardizedError("AUTHENTICATION_ERROR", 401, operation, TRUE, {}, TRUE)
  ELSE IF error.code \in {"ETLSNOTCAPABLE", "ESSLNOTCAPABLE"}
  THEN StandardizedError("TLS_ERROR", 502, operation, TRUE, {}, FALSE)
  ELSE IF Includes(error, "quota") \/ Includes(error, "storage")
  THEN StandardizedError("QUOTA_ERROR", 507, operation, TRUE, {"quota", "storage"}, FALSE)
  ELSE IF StartsWithSMTP(error.code)
  THEN StandardizedError("SMTP_ERROR", 502, operation, TRUE, Quoted(error), FALSE)
  ELSE IF Includes(error, "not supported") \/ Includes(error, "capability")
  THEN StandardizedError("CAPABILITY_ERROR", 501, operation, TRUE, Quoted(error), FALSE)
  ELSE StandardizedError("UNKNOWN_IMAP_ERROR", 500, operation, TRUE, Quoted(error),
                         error.code \in FatalErrors \/ error.respStatus \in FatalErrors)

\* withErrorHandler(operation, fn): c is the state fn ended in.  The result
\* is what the caller gets: status "ok", or "error" with the value thrown;
\* raw is the value the catch block caught and built the StandardizedError it
\* constructed from it.
\* Only the authentication branch awaits deleteActiveConnection, and a
\* rejection of that await leaves the catch block as it is.
withErrorHandler(operation, c, env) ==
  IF c.thrown = NoError
  THEN [c |-> c, status |-> "ok", err |-> NoError, raw |-> NoError, built |-> NoError]
  ELSE LET err == Classify(operation, c.thrown)
       IN  IF err.code = "AUTHENTICATION_ERROR"
           THEN LET d == [c EXCEPT !.log = Append(@, [cmd |-> "deleteActiveConnection", box |-> NoBox,
                                                       uids |-> <<>>, ok |-> (env.storeErr = NoError)])]
                IN  IF env.storeErr = NoError
                    THEN [c |-> [d EXCEPT !.stored = FALSE], status |-> "error", err |-> err,
                          raw |-> c.thrown, built |-> err]
                    ELSE [c |-> d, status |-> "error", err |-> env.storeErr,
                          raw |-> c.thrown, built |-> err]
           ELSE [c |-> c, status |-> "error", err |-> err, raw |-> c.thrown, built |-> err]

(***************************************************************************)
(* list and listDrafts.                                                    *)
(***************************************************************************)
\* A folder name is the sequence of its characters.
Lower == <<"a", "b", "c", "d", "e", "f", "g", "h", "i", "j", "k", "l", "m",
           "n", "o", "p", "q", "r", "s", "t", "u", "v", "w", "x", "y", "z">>
Upper == <<"A", "B", "C", "D", "E", "F", "G", "H", "I", "J", "K", "L", "M",
           "N", "O", "P", "Q", "R", "S", "T", "U", "V", "W", "X", "Y", "Z">>

\* String.prototype.toLowerCase: each capital letter gives way to its small one
toLowerCase(str) ==
  [i \in 1..Len(str) |->
     IF \E k \in 1..Len(Upper) : Upper[k] = str[i]
     THEN Lower[CHOOSE k \in 1..Len(Upper) : Upper[k] = str[i]]
     ELSE str[i]]

\* normalizeMailbox with the switch on the folder as given
normalizeMailboxAsGiven(folder) ==
  CASE folder = <<"i", "n", "b", "o", "x">> -> <<"I", "N", "B", "O", "X">>
    [] folder = <<"s", "e", "n", "t">> -> <<"S", "e", "n", "t">>
    [] folder = <<"d", "r", "a", "f", "t", "s">> -> <<"D", "r", "a", "f", "t", "s">>
    [] folder = <<"b", "i", "n">> -> <<"T", "r", "a", "s", "h">>
    [] folder = <<"t", "r", "a", "s", "h">> -> <<"T", "r", "a", "s", "h">>
    [] folder = <<"s", "p", "a", "m">> -> <<"S", "p", "a", "m">>
    [] folder = <<"a", "r", "c", "h", "i", "v", "e">> -> <<"A", "r", "c", "h", "i", "v", "e">>
    [] OTHER -> folder

normalizeMailbox(folder) ==
  LET l == toLowerCase(folder)
  IN  CASE l = <<"i", "n", "b", "o", "x">> -> <<"I", "N", "B", "O", "X">>
        [] l = <<"s", "e", "n", "t">> -> <<"S", "e", "n", "t">>
        [] l = <<"d", "r", "a", "f", "t", "s">> -> <<"D", "r", "a", "f", "t", "s">>
        [] l = <<"b", "i", "n">> -> <<"T", "r", "a", "s", "h">>
        [] l = <<"t", "r", "a", "s", "h">> -> <<"T", "r", "a", "s", "h">>
        [] l = <<"s", "p", "a", "m">> -> <<"S", "p", "a", "m">>
        [] l = <<"a", "r", "c", "h", "i", "v", "e">> -> <<"A", "r", "c", "h", "i", "v", "e">>
        [] OTHER -> folder

\* the mailbox of the server a name spells
Spelled(str) ==
  CASE str = <<"I", "N", "B", "O", "X">> -> "INBOX"
    [] str = <<"S", "e", "n", "t">> -> "Sent"
    [] str = <<"D", "r", "a", "f", "t", "s">> -> "Drafts"
    [] str = <<"T", "r", "a", "s", "h">> -> "Trash"
    [] str = <<"S", "p", "a", "m">> -> "Spam"
    [] str = <<"A", "r", "c", "h", "i", "v", "e">> -> "Archive"
    [] str = <<"W", "o", "r", "k">> -> "Work"
    [] OTHER -> "(other)"

\* [...uids].sort((a, b) => b - a): insertion into a descending sequence
RECURSIVE InsertDesc(_, _)
InsertDesc(s, x) ==
  IF Len(s) = 0 THEN <<x>>
  ELSE IF x - Head(s) >= 0 THEN <<x>> \o s
  ELSE <<Head(s)>> \o InsertDesc(Tail(s), x)
RECURSIVE SortDesc(_)
SortDesc(uids) ==
  IF Len(uids) = 0 THEN <<>> ELSE InsertDesc(SortDesc(Tail(uids)), Head(uids))

\* sortedUids.slice(0, maxResults), for maxResults >= 0
Slice0(s, n) == SubSeq(s, 1, Min(n, Len(s)))

\* paginatedUids = sortedUids.slice(0, maxResults)
paginate(sortedUids, maxResults) == Slice0(sortedUids, maxResults)

\* a token test that is off by one
hasMoreMutant(sortedUids, maxResults) == Len(sortedUids) >= maxResults
\* sortedUids.length > maxResults
hasMore(sortedUids, maxResults) == Len(sortedUids) > maxResults

\* the page token of list, `${lastUid}:${maxResults}`, as its ':'-separated parts
ListToken(lastUid, maxResults) == <<lastUid, maxResults>>
\* the page token of listDrafts, lastUid.toString()
DraftsToken(lastUid, maxResults) == <<lastUid>>

\* what the caller of a public operation gets, and the state the call leaves:
\* out when the operation returned, failed when it threw
Answer(op, h, in, out, failed) ==
  [c |-> h.c,
   call |-> [op |-> op, status |-> h.status, err |-> h.err, raw |-> h.raw, built |-> h.built,
             log |-> h.c.log, in |-> in,
             out |-> IF h.status = "ok" THEN out ELSE failed]]

\* the fetch of the page asking the server to mark what it fetches as seen
fetchPageMarkingSeen(c, env, maxResults) ==
  fetchMessages(c, env, paginate(SortDesc(c.uids), maxResults), TRUE)

\* the fetch of the page: sort the UIDs found, slice, fetch the headers
fetchPage(c, env, maxResults) ==
  fetchMessages(c, env, paginate(SortDesc(c.uids), maxResults), FALSE)

\* What list and listDrafts share once the mailbox is named: connect,
\* select, search, sort, slice, fetch headers, parse.  startUid is parsed
\* from the page token and then never read: the token takes no part.
listIn(c0, env, mailbox, q, maxResults, pageToken) ==
  LET c1 == connectImap(c0, env)
      c2 == openMailbox(c1, env, mailbox)
      startUid == IF pageToken # Null THEN pageToken[1] ELSE 1
      c3 == searchEmails(c2, env, q)
      c4 == fetchPage(c3, env, maxResults)
  IN  parseEmail(c4, env)

\* the threads and the token list and listDrafts build from the messages of
\* the page, with what the call computed on the way: the search result, the
\* page it asked for, the UIDs of the messages behind the threads
listAnswer(op, h, in, drafts) ==
  LET sortedUids == SortDesc(h.c.uids)
      paginatedUids == paginate(sortedUids, in.maxResults)
      lastUid == paginatedUids[Len(paginatedUids)] - 1
      found == [uids |-> h.c.uids,
                fetched |-> [i \in 1..Len(h.c.messages) |-> h.c.messages[i].of],
                searched |-> \E i \in 1..Len(h.c.log) : h.c.log[i].cmd = "search" /\ h.c.log[i].ok]
  IN  Answer(op, h, in,
             [threads |-> [i \in 1..Len(h.c.messages) |-> <<in.mailbox, h.c.messages[i].uid>>],
              nextPageToken |-> IF hasMore(sortedUids, in.maxResults)
                                THEN IF drafts THEN DraftsToken(lastUid, in.maxResults)
                                     ELSE ListToken(lastUid, in.maxResults)
                                ELSE Null,
              uids |-> found.uids, paginatedUids |-> paginatedUids,
              fetched |-> found.fetched, searched |-> found.searched],
             [threads |-> <<>>, nextPageToken |-> Null,
              uids |-> found.uids, paginatedUids |-> <<>>,
              fetched |-> found.fetched, searched |-> found.searched])

\* list(params): the outcome of the call, and the state it leaves
list(folder, q, maxResults, pageToken, env) ==
  LET normalizedMailbox == Spelled(normalizeMailbox(folder))
      c == listIn(World, env, normalizedMailbox, q, maxResults, pageToken)
      h == withErrorHandler("list", c, env)
  IN  listAnswer("list", h,
                 [folder |-> folder, mailbox |-> normalizedMailbox, q |-> q,
                  maxResults |-> maxResults, pageToken |-> pageToken], FALSE)

\* listDrafts(params)
listDrafts(q, maxResults, pageToken, env) ==
  LET c == listIn(World, env, "Drafts", q, maxResults, pageToken)
      h == withErrorHandler("listDrafts", c, env)
  IN  listAnswer("listDrafts", h,
                 [folder |-> "Drafts", mailbox |-> "Drafts", q |-> q,
                  maxResults |-> maxResults, pageToken |-> pageToken], TRUE)

(***************************************************************************)
(* The environments the calls are run in.                                  *)
(***************************************************************************)
\* the store's failure, should deleteActiveConnection reject
StoreDown == Raw("STORE_UNAVAILABLE", TRUE, {})

Contents(box) == IF box \in Mailboxes THEN mbox[box] ELSE {}

\* every command succeeds
Calm(box) ==
  [failAt |-> 0, err |-> NoError, failAt2 |-> 0, err2 |-> NoError, storeErr |-> NoError,
   match |-> Contents(box)]

\* every command succeeds; a query matches any subset of the messages of box
Quiet(box) == {[Calm(box) EXCEPT !.match = m] : m \in SUBSET Contents(box)}

\* the k-th command fails, for k up to n; the store may fail too when asked
Failing(box, n) ==
  {[failAt |-> k, err |-> e, failAt2 |-> 0, err2 |-> NoError, storeErr |-> se,
    match |-> Contents(box)] :
     k \in 1..n, e \in RawErrors, se \in {NoError, StoreDown}}
    \ {env \in [failAt : 1..n, err : RawErrors, failAt2 : {0}, err2 : {NoError},
                 storeErr : {StoreDown}, match : {Contents(box)}] :
          env.err.code # "AUTHENTICATIONFAILED"}

\* one command fails, or two do, the k-th and a later one
FailingTwice(box, n) ==
  Failing(box, n) \cup
  {env \in [failAt : 1..n, err : RawErrors, failAt2 : 1..n, err2 : {Raw("ECONNREFUSED", TRUE, {})},
            storeErr : {NoError, StoreDown}, match : {Contents(box)}] :
     /\ env.failAt < env.failAt2
     /\ env.storeErr = StoreDown => env.err.code = "AUTHENTICATIONFAILED"}

\* the same with the two errors the classifier treats as fatal
Refused(box, n) ==
  {env \in Failing(box, n) : env.err.code \in {"ECONNREFUSED", "AUTHENTICATIONFAILED"}}
RefusedTwice(box, n) ==
  {env \in FailingTwice(box, n) : env.err.code \in {"ECONNREFUSED", "AUTHENTICATIONFAILED"}}

(***************************************************************************)
(* The state after construction, and the steps.                            *)
(***************************************************************************)
Idle == [op |-> "idle", status |-> "ok", err |-> NoError, raw |-> NoError, built |-> NoError,
         log |-> <<>>,
         in |-> [folder |-> ""], out |-> [threads |-> <<>>]]

MaxOf(S) == IF S = {} THEN 0 ELSE CHOOSE x \in S : \A y \in S : y <= x

\* the users that hold a session, and the null of defaultConnectionId and of
\* a session without a connection
Users == {"u1", "u2"}
NoConnection == "(null)"

\* a row of the table connection (an account linked through a provider);
\* createdAt and the other timestamps are left out of the rows
Linked(id, userId, email, providerId, refreshToken) ==
  [id |-> id, userId |-> userId, email |-> email, name |-> SubSeq(email, 1, 1), picture |-> Null,
   providerId |-> providerId, accessToken |-> <<"a", "t">>, refreshToken |-> refreshToken]

\* the database when the behaviours start: the first user linked two
\* accounts, the second of which lost its refresh token, the second user
\* one; no IMAP account yet; each user's default is their first account
Database ==
  [connection |->
     {Linked("c1", "u1", <<"a", "@", "g", ".", "c">>, "google", <<"r", "t">>),
      Linked("c2", "u1", <<"a", "@", "o", ".", "c">>, "microsoft", Null),
      Linked("c3", "u2", <<"b", "@", "g", ".", "c">>, "google", <<"r", "t">>)},
   imapConnection |-> {},
   user |-> [u \in Users |-> IF u = "u1" THEN "c1" ELSE "c3"]]

\* the adapter right after its constructor: nothing connected, nothing called
Fresh ==
  /\ boxes = Mailboxes
  /\ uidNext = [m \in Mailboxes |-> MaxOf(mbox[m]) + 1]
  /\ flags = {}
  /\ conn = "disconnected"
  /\ selected = NoBox
  /\ stored = TRUE
  /\ db = Database
  /\ ncalls = 0
  /\ call = Idle
  /\ pgState = "idle"
  /\ pgTok = Null
  /\ pgSize = 1
  /\ pgAcc = <<>>
  /\ pgFull = FALSE
  /\ pgOdd = FALSE

Init ==
  /\ \E inbox \in SUBSET (1..MaxUid), drafts \in SUBSET (1..MaxUid) :
       /\ mbox = [m \in Mailboxes |-> IF m = "INBOX" THEN inbox ELSE IF m = "Drafts" THEN drafts ELSE {}]
       /\ \E oi \in Orders(inbox), od \in Orders(drafts) :
            order = [m \in Mailboxes |-> IF m = "INBOX" THEN oi ELSE IF m = "Drafts" THEN od ELSE <<>>]
  /\ pgOp = "list"
  /\ Fresh

\* the call's effects on the server, the session and the store, and its outcome
Deliver(res) ==
  /\ mbox' = res.c.mbox
  /\ order' = res.c.order
  /\ boxes' = res.c.boxes
  /\ uidNext' = res.c.uidNext
  /\ flags' = res.c.flags
  /\ conn' = res.c.conn
  /\ selected' = res.c.selected
  /\ stored' = res.c.stored
  /\ call' = res.call
  /\ db' = IF "db" \in DOMAIN res THEN res.db ELSE db

\* a caller may call when its previous call has been answered
CanCall == call.op = "idle" /\ ncalls < MaxCalls
Called(res) == Deliver(res) /\ ncalls' = ncalls + 1 /\ UNCHANGED pager

\* the caller takes the outcome of its call
Return ==
  /\ call.op # "idle"
  /\ call' = Idle
  /\ UNCHANGED <<mbox, order, boxes, uidNext, flags, conn, selected, stored, ncalls, pager, db>>

FolderNames == {<<"i", "n", "b", "o", "x">>, <<"I", "N", "B", "O", "X">>, <<"W", "o", "r", "k">>}
PageTokens(maxResults) == {Null} \cup {ListToken(l, maxResults) : l \in 1..MaxUid}
DraftTokens(maxResults) == {Null} \cup {DraftsToken(l, maxResults) : l \in 1..MaxUid}

List ==
  /\ CanCall
  /\ \E folder \in FolderNames, q \in BOOLEAN, maxResults \in 1..MaxPageSize :
       \E pageToken \in PageTokens(maxResults) :
         \E env \in Quiet(Spelled(normalizeMailbox(folder))) \cup
                  Failing(Spelled(normalizeMailbox(folder)), 5) :
           Called(list(folder, q, maxResults, pageToken, env))

ListDrafts ==
  /\ CanCall
  /\ \E q \in BOOLEAN, maxResults \in 1..MaxPageSize :
       \E pageToken \in DraftTokens(maxResults) :
         \E env \in Quiet("Drafts") \cup Failing("Drafts", 5) :
           Called(listDrafts(q, maxResults, pageToken, env))


(***************************************************************************)
(* create and delete.                                                      *)
(***************************************************************************)
\* a saveSentEmail without its try/catch
saveSentEmailThrows(c, env) ==
  IF c.thrown # NoError THEN c
  ELSE sendMail(openMailbox(connectImap(c, env), env, "Sent"), env)

\* saveSentEmail: connect, select Sent, hand the message to smtp.sendMail a
\* second time, log; whatever is thrown on the way is caught and logged.
\* No command stores a message in Sent.
saveSentEmail(c, env) ==
  IF c.thrown # NoError THEN c
  ELSE LET d == sendMail(openMailbox(connectImap(c, env), env, "Sent"), env)
       IN  [d EXCEPT !.thrown = NoError]

\* create(data)
create(env) ==
  LET c1 == sanitizeTipTapHtml(World, env)
      c2 == sendMail(c1, env)
      c3 == saveSentEmail(c2, env)
      h == withErrorHandler("create", c3, env)
  IN  Answer("create", h, [sentBefore |-> mbox["Sent"]], [id |-> MessageId(1)], [id |-> Null])

\* a delete that gives up when the move fails
deleteCommandsNoFallback(c, env, uid) == imapMove(c, env, uid, "Trash")

\* the promise at the end of delete: move to Trash; if the move fails, add
\* \Deleted instead; rejected only with the error of the flag command
deleteCommands(c, env, uid) ==
  IF c.thrown # NoError THEN c
  ELSE LET m == imapMove(c, env, uid, "Trash")
       IN  IF m.thrown = NoError THEN m
           ELSE imapAddFlags([m EXCEPT !.thrown = NoError], env, uid, "\\Deleted")

\* the mailbox part of an id, parts[0] || 'INBOX'
MailboxOrInbox(id) == IF Len(id) = 0 \/ id[1] = "" THEN "INBOX" ELSE id[1]

\* delete(id) from state c: the id is its ':'-separated parts
deleteFrom(c0, env, id) ==
  LET c1 == connectImap(c0, env)
      mailbox == MailboxOrInbox(id)
      uid == id[2]
      c2 == openMailbox(c1, env, mailbox)
      c3 == deleteCommands(c2, env, uid)
  IN  withErrorHandler("delete", c3, env)

delete(id, env) ==
  Answer("delete", deleteFrom(World, env, id), [id |-> id], [id |-> id], [id |-> id])

Ids == {<<m, u>> : m \in {"INBOX", "Drafts"}, u \in 1..MaxUid}

Create ==
  /\ CanCall
  /\ \E env \in {Calm("Sent")} \cup FailingTwice("Sent", 5) : Called(create(env))

Delete ==
  /\ CanCall
  /\ \E id \in Ids : \E env \in {Calm(id[1])} \cup FailingTwice(id[1], 4) : Called(delete(id, env))

(***************************************************************************)
(* The other public operations.                                            *)
(***************************************************************************)
\* what a call of a wrapped operation leaves to its caller: the state it
\* ended in and, if it threw, the value it threw
Rethrown(h) == [h.c EXCEPT !.thrown = IF h.status = "ok" THEN NoError ELSE h.err]

\* unread of convertToAppMessage: !email.flags || !email.flags.includes('\\Seen'),
\* where email is what simpleParser made of the raw bytes: it has no flags
ParsedFlags == Null
Unread(emailFlags) == emailFlags = Null \/ "\\Seen" \notin Range(emailFlags)

\* get(id)
get(id, env) ==
  LET mailbox == MailboxOrInbox(id)
      uid == id[2]
      c1 == connectImap(World, env)
      c2 == openMailbox(c1, env, mailbox)
      c3 == fetchMessages(c2, env, <<uid>>, TRUE)
      c4 == messageOrThrow(c3, NotFoundError)
      c5 == parseEmail(c4, env)
      h == withErrorHandler("get", c5, env)
  IN  Answer("get", h, [id |-> id],
             [id |-> id, unread |-> Unread(ParsedFlags), totalReplies |-> 1], [id |-> id])

RECURSIVE moveEach(_, _, _, _)
\* the loop with the last of addLabels as its target folder
moveEachToLast(c, env, messageIds, addLabels) ==
  IF Len(messageIds) = 0 THEN c
  ELSE LET id == Head(messageIds)
           currentMailbox == id[1]
           uid == id[2]
           d == IF Len(addLabels) > 0
                THEN imapMove(openMailbox(c, env, currentMailbox), env, uid, addLabels[Len(addLabels)])
                ELSE c
       IN  moveEach(d, env, Tail(messageIds), addLabels)

\* the loop of modifyLabels over messageIds
moveEach(c, env, messageIds, addLabels) ==
  IF Len(messageIds) = 0 THEN c
  ELSE LET id == Head(messageIds)
           currentMailbox == id[1]
           uid == id[2]
           d == IF Len(addLabels) > 0
                THEN imapMove(openMailbox(c, env, currentMailbox), env, uid, addLabels[1])
                ELSE c
       IN  moveEach(d, env, Tail(messageIds), addLabels)

\* modifyLabels(messageIds, {addLabels, removeLabels})
modifyLabels(messageIds, addLabels, removeLabels, env) ==
  LET c1 == connectImap(World, env)
      c2 == moveEach(c1, env, messageIds, addLabels)
      h == withErrorHandler("modifyLabels", c2, env)
  IN  Answer("modifyLabels", h,
             [ids |-> messageIds, addLabels |-> addLabels, removeLabels |-> removeLabels],
             [ids |-> messageIds], [ids |-> messageIds])

\* one message of markAsRead (add) or markAsUnread
flagOne(c, env, uid, add) ==
  IF add THEN imapAddFlags(c, env, uid, "\\Seen") ELSE imapDelFlags(c, env, uid, "\\Seen")

\* the loop fanned out: every id's select is issued, then every id's flag command
RECURSIVE selectAll(_, _, _)
selectAll(c, env, threadIds) ==
  IF Len(threadIds) = 0 THEN c
  ELSE selectAll(openMailbox(c, env, Head(threadIds)[1]), env, Tail(threadIds))
RECURSIVE flagAll(_, _, _, _)
flagAll(c, env, threadIds, add) ==
  IF Len(threadIds) = 0 THEN c
  ELSE flagAll(flagOne(c, env, Head(threadIds)[2], add), env, Tail(threadIds), add)
flagEachFannedOut(c, env, threadIds, add) ==
  flagAll(selectAll(c, env, threadIds), env, threadIds, add)

\* the loop undoing its flag changes when one of its commands fails
RECURSIVE flagLoop(_, _, _, _)
flagLoop(c, env, threadIds, add) ==
  IF Len(threadIds) = 0 THEN c
  ELSE flagLoop(flagOne(openMailbox(c, env, Head(threadIds)[1]), env, Head(threadIds)[2], add),
                env, Tail(threadIds), add)
flagEachRolledBack(c, env, threadIds, add) ==
  [flagLoop(c, env, threadIds, add) EXCEPT
     !.flags = IF flagLoop(c, env, threadIds, add).thrown # NoError THEN c.flags ELSE @]

\* the loops of markAsRead and markAsUnread over threadIds
RECURSIVE flagEach(_, _, _, _)
flagEach(c, env, threadIds, add) ==
  IF Len(threadIds) = 0 THEN c
  ELSE LET id == Head(threadIds)
           mailbox == id[1]
           uid == id[2]
           d == flagOne(openMailbox(c, env, mailbox), env, uid, add)
       IN  flagEach(d, env, Tail(threadIds), add)

\* markAsRead(threadIds)
markAsRead(threadIds, env) ==
  LET c1 == connectImap(World, env)
      c2 == flagEach(c1, env, threadIds, TRUE)
      h == withErrorHandler("markAsRead", c2, env)
  IN  Answer("markAsRead", h, [ids |-> threadIds], [ids |-> threadIds], [ids |-> threadIds])

\* markAsUnread(threadIds)
markAsUnread(threadIds, env) ==
  LET c1 == connectImap(World, env)
      c2 == flagEach(c1, env, threadIds, FALSE)
      h == withErrorHandler("markAsUnread", c2, env)
  IN  Answer("markAsUnread", h, [ids |-> threadIds], [ids |-> threadIds], [ids |-> threadIds])

\* a createDraft that appends the draft to the selected mailbox
createDraftAppending(env) ==
  LET c1 == connectImap(World, env)
      c2 == sanitizeTipTapHtml(c1, env)
      c3 == openMailbox(c2, env, "Drafts")
      c4 == IF c3.thrown # NoError THEN c3
            ELSE [c3 EXCEPT !.mbox["Drafts"] = @ \cup {c3.uidNext["Drafts"]},
                            !.order["Drafts"] = Append(@, c3.uidNext["Drafts"]),
                            !.uidNext["Drafts"] = @ + 1]
      h == withErrorHandler("createDraft", c4, env)
  IN  Answer("createDraft", h, [draftsBefore |-> mbox["Drafts"]],
             [id |-> <<"draft-">>, success |-> TRUE], [id |-> Null, success |-> FALSE])

\* createDraft(data): connect, sanitize, select Drafts, return a made-up id;
\* no command stores a message in Drafts
createDraft(env) ==
  LET c1 == connectImap(World, env)
      c2 == sanitizeTipTapHtml(c1, env)
      c3 == openMailbox(c2, env, "Drafts")
      h == withErrorHandler("createDraft", c3, env)
  IN  Answer("createDraft", h, [draftsBefore |-> mbox["Drafts"]],
             [id |-> <<"draft-">>, success |-> TRUE], [id |-> Null, success |-> FALSE])

\* getDraft(id)
getDraft(id, env) ==
  LET uid == id[2]
      c1 == connectImap(World, env)
      c2 == openMailbox(c1, env, "Drafts")
      c3 == fetchMessages(c2, env, <<uid>>, FALSE)
      c4 == messageOrThrow(c3, NotFoundError)
      c5 == parseEmail(c4, env)
      h == withErrorHandler("getDraft", c5, env)
  IN  Answer("getDraft", h, [id |-> id], [id |-> id], [id |-> id])

\* await this.delete(id) inside another operation: delete runs in its own
\* withErrorHandler, and what that throws is thrown here
thisDelete(c, env, id) ==
  IF c.thrown # NoError THEN c ELSE Rethrown(deleteFrom(c, env, id))

\* a sendDraft that deletes the draft before it sends
sendDraftDeleteFirst(id, env) ==
  LET c1 == sanitizeTipTapHtml(World, env)
      c2 == thisDelete(c1, env, id)
      c3 == sendMail(c2, env)
      h == withErrorHandler("sendDraft", c3, env)
  IN  Answer("sendDraft", h, [id |-> id], [id |-> id], [id |-> id])

\* sendDraft(id, data): prepare, send, then this.delete(id)
sendDraft(id, env) ==
  LET c1 == sanitizeTipTapHtml(World, env)
      c2 == sendMail(c1, env)
      c3 == thisDelete(c2, env, id)
      h == withErrorHandler("sendDraft", c3, env)
  IN  Answer("sendDraft", h, [id |-> id], [id |-> id], [id |-> id])

\* the folders count reports on
CountFolders == <<"INBOX", "Sent", "Drafts", "Trash", "Spam", "Archive">>

\* one folder of count, after its select: whether the select was answered
\* without err and the mailbox it left as this.imap._box; a rejection is caught
selectedBy(c, d, folder) ==
  [d EXCEPT !.thrown = NoError,
            !.counts = Append(c.counts,
                              [label |-> folder, ok |-> d.thrown = NoError,
                               box |-> IF d.thrown # NoError THEN NoBox ELSE d.selected])]

\* the six openBox calls of folders.map: all are issued before any is
\* answered, and the client runs them one after the other on the one session
RECURSIVE selectEach(_, _, _)
selectEach(c, env, folders) ==
  IF Len(folders) = 0 THEN c
  ELSE selectEach(selectedBy(c, openMailbox(c, env, Head(folders)), Head(folders)), env, Tail(folders))

\* this.imap._box as the body of the i-th folder reads it when it resumes
\* after its await: the client has answered lag later selects by then
boxRead(selects, i, lag) == selects[Min(i + lag, Len(selects))].box

\* the entries the bodies resolve with: box.messages.total of the box read,
\* 0 when there is none, 0 from the catch
countsRead(c, lag) ==
  [c EXCEPT !.counts =
     [i \in 1..Len(@) |->
        [label |-> @[i].label,
         count |-> IF ~@[i].ok \/ boxRead(@, i, lag) = NoBox THEN 0
                   ELSE Cardinality(c.mbox[boxRead(@, i, lag)])]]]

\* the counts of count(), as returned
countAnswer(h, in) == Answer("count", h, in, [counts |-> h.c.counts], [counts |-> <<>>])

\* count()
count(env, lag) ==
  LET c1 == connectImap(World, env)
      c2 == IF c1.thrown # NoError THEN c1 ELSE selectEach(c1, env, CountFolders)
      c3 == countsRead(c2, lag)
      h == withErrorHandler("count", c3, env)
  IN  countAnswer(h, [totals |-> [m \in Mailboxes |-> Cardinality(mbox[m])], boxes |-> boxes])

\* getAttachment(messageId, attachmentId)
getAttachment(messageId, env) ==
  LET mailbox == messageId[1]
      uid == messageId[2]
      c1 == connectImap(World, env)
      c2 == openMailbox(c1, env, mailbox)
      c3 == fetchMessages(c2, env, <<uid>>, FALSE)
      c4 == messageOrThrow(c3, NotFoundError)
      c5 == parseEmail(c4, env)
      h == withErrorHandler("getAttachment", c5, env)
  IN  Answer("getAttachment", h, [id |-> messageId], [id |-> messageId], [id |-> messageId])

\* the labels of getUserLabels(), one folder label per mailbox name
labelsAnswer(h, in) ==
  Answer("getUserLabels", h, in,
         [labels |-> [i \in 1..Len(h.c.names) |->
                        [id |-> h.c.names[i], name |-> h.c.names[i], type |-> "folder"]]],
         [labels |-> <<>>])

\* getUserLabels(), with the object imap.getBoxes answers with
getUserLabels(env, tree) ==
  LET c1 == connectImap(World, env)
      c2 == imapGetBoxes(c1, env, tree)
      h == withErrorHandler("getUserLabels", c2, env)
  IN  labelsAnswer(h, [boxes |-> boxes, tree |-> tree])

\* createLabel(label)
createLabel(name, env) ==
  LET c1 == connectImap(World, env)
      c2 == imapAddBox(c1, env, name)
      h == withErrorHandler("createLabel", c2, env)
  IN  Answer("createLabel", h, [name |-> name], [name |-> name], [name |-> name])

\* the rename of updateLabel, skipped when the name is unchanged
renameIfChanged(c, env, id, name) ==
  IF id # name THEN imapRenameBox(c, env, id, name) ELSE c

\* updateLabel(id, label)
updateLabel(id, name, env) ==
  LET c1 == connectImap(World, env)
      c2 == renameIfChanged(c1, env, id, name)
      h == withErrorHandler("updateLabel", c2, env)
  IN  Answer("updateLabel", h, [id |-> id, name |-> name], [id |-> id], [id |-> id])

\* deleteLabel(id)
deleteLabel(id, env) ==
  LET c1 == connectImap(World, env)
      c2 == imapDelBox(c1, env, id)
      h == withErrorHandler("deleteLabel", c2, env)
  IN  Answer("deleteLabel", h, [id |-> id], [id |-> id], [id |-> id])

\* the id lists of the calls that take several ids
IdLists ==
  {<<>>} \cup {<<a>> : a \in Ids} \cup {p \in Ids \X Ids : p[1][2] < p[2][2]}
LabelLists == {<<>>, <<"Sent", "Trash">>}
LabelNames == {"Sent", "Trash"}

Get ==
  /\ CanCall
  /\ \E id \in Ids : \E env \in {Calm(id[1])} \cup Failing(id[1], 4) : Called(get(id, env))

ModifyLabels ==
  /\ CanCall
  /\ \E ids \in IdLists, add \in LabelLists, remove \in {<<>>, <<"INBOX">>} :
       \E env \in {Calm("INBOX")} \cup Refused("INBOX", 5) : Called(modifyLabels(ids, add, remove, env))

MarkAsRead ==
  /\ CanCall
  /\ \E ids \in IdLists : \E env \in {Calm("INBOX")} \cup Refused("INBOX", 5) : Called(markAsRead(ids, env))

MarkAsUnread ==
  /\ CanCall
  /\ \E ids \in IdLists : \E env \in {Calm("INBOX")} \cup Refused("INBOX", 5) : Called(markAsUnread(ids, env))

CreateDraft ==
  /\ CanCall
  /\ \E env \in {Calm("Drafts")} \cup Failing("Drafts", 3) : Called(createDraft(env))

GetDraft ==
  /\ CanCall
  /\ \E id \in Ids : \E env \in {Calm("Drafts")} \cup Failing("Drafts", 4) : Called(getDraft(id, env))

SendDraft ==
  /\ CanCall
  /\ \E id \in Ids : \E env \in {Calm("Drafts")} \cup RefusedTwice("Drafts", 6) : Called(sendDraft(id, env))

Count ==
  /\ CanCall
  /\ \E env \in {Calm("INBOX")} \cup FailingTwice("INBOX", 5) :
       \E lag \in 0..MaxLag : Called(count(env, lag))

GetAttachment ==
  /\ CanCall
  /\ \E id \in Ids : \E env \in {Calm(id[1])} \cup Failing(id[1], 4) : Called(getAttachment(id, env))

GetUserLabels ==
  /\ CanCall
  /\ \E env \in {Calm("INBOX")} \cup Failing("INBOX", 2) : Called(getUserLabels(env, FlatTree(boxes)))

CreateLabel ==
  /\ CanCall
  /\ \E name \in LabelNames : \E env \in {Calm(name)} \cup Failing(name, 2) : Called(createLabel(name, env))

UpdateLabel ==
  /\ CanCall
  /\ \E id \in LabelNames, name \in LabelNames :
       \E env \in {Calm(name)} \cup Failing(name, 2) : Called(updateLabel(id, name, env))

DeleteLabel ==
  /\ CanCall
  /\ \E id \in LabelNames : \E env \in {Calm(id)} \cup Failing(id, 2) : Called(deleteLabel(id, env))

(***************************************************************************)
(* A client that pages through a mailbox: list(folder) without a token,    *)
(* then list with the nextPageToken of the previous page until it is null. *)
(* The mailbox does not change and no command fails.                       *)
(***************************************************************************)
PagerInit ==
  /\ pgOp \in {"list", "listDrafts"}
  /\ \E S \in SUBSET (1..PagerMaxUid) :
       /\ Cardinality(S) <= PagerMaxMsgs
       /\ mbox = [m \in Mailboxes |-> IF m = (IF pgOp = "list" THEN "INBOX" ELSE "Drafts") THEN S ELSE {}]
       /\ \E o \in Orders(S) :
            order = [m \in Mailboxes |-> IF m = (IF pgOp = "list" THEN "INBOX" ELSE "Drafts") THEN o ELSE <<>>]
  /\ Fresh

PagedBox == IF pgOp = "list" THEN "INBOX" ELSE "Drafts"

\* the numbers of the thread ids of a page, `${mailbox}:${n}`
IdNumbers(threads) == [i \in 1..Len(threads) |-> threads[i][2]]

Paged(res, size) ==
  /\ Deliver(res)
  /\ pgSize' = size
  /\ pgTok' = res.call.out.nextPageToken
  /\ pgState' = IF res.call.out.nextPageToken = Null THEN "done" ELSE "paging"
  /\ IF Len(pgAcc) + Len(res.call.out.threads) <= PagerMaxAcc /\ ~pgFull
     THEN pgAcc' = pgAcc \o IdNumbers(res.call.out.threads) /\ pgFull' = FALSE
     ELSE pgAcc' = pgAcc /\ pgFull' = TRUE
  /\ pgOdd' = ~pgOdd
  /\ UNCHANGED <<pgOp, ncalls>>

PageFirst ==
  /\ pgState = "idle"
  /\ \E size \in 1..PagerMaxPageSize :
       Paged(IF pgOp = "list" THEN list(<<"i", "n", "b", "o", "x">>, FALSE, size, Null, Calm(PagedBox))
             ELSE listDrafts(FALSE, size, Null, Calm(PagedBox)), size)

PageNext ==
  /\ pgState = "paging"
  /\ Paged(IF pgOp = "list" THEN list(<<"i", "n", "b", "o", "x">>, FALSE, pgSize, pgTok, Calm(PagedBox))
           ELSE listDrafts(FALSE, pgSize, pgTok, Calm(PagedBox)), pgSize)

PagerNext == PageFirst \/ PageNext
PagerSpec == PagerInit /\ [][PagerNext]_vars
\* The client keeps calling while it holds a token.  Termination does not
\* depend on the order of delivery: the server delivers in ascending order.
IsAscending(s) == \A i, j \in 1..Len(s) : i < j => s[i] < s[j]
FairPagerInit == PagerInit /\ IsAscending(order[PagedBox])
\* Every step of the client is a call, and every call turns pgOdd: weak
\* fairness of the client's calls, stated on what enables and marks a call.
PagerCalls == pgState \in {"idle", "paging"} /\ pgOdd' = ~pgOdd
FairPagerSpec == FairPagerInit /\ [][PagerNext]_vars /\ WF_pgOdd(PagerCalls)

(***************************************************************************)
(* The classifier on its own: a public operation whose connection attempt  *)
(* ends in an error of any signature.                                      *)
(***************************************************************************)
\* error.code of the values thrown: absent, the codes the catch block names,
\* a code of the allowlist, and one it knows nothing of
ErrorCodes ==
  {"undefined", "ECONNREFUSED", "ETIMEDOUT", "ENOTFOUND", "AUTHENTICATIONFAILED",
   "INVALIDCREDENTIALS", "ETLSNOTCAPABLE", "ESSLNOTCAPABLE", "SMTP_TIMEOUT",
   "invalid_grant", "EPIPE"}
\* error.response?.status of the values thrown
ResponseStatuses == {"undefined", "invalid_credentials"}

\* the values connectImap may reject with
ThrownErrors ==
  {[Raw(code, TRUE, msg) EXCEPT !.respStatus = r] :
     code \in ErrorCodes, msg \in SUBSET Keywords, r \in ResponseStatuses}
  \cup {[Raw(code, FALSE, {}) EXCEPT !.respStatus = r] : code \in ErrorCodes, r \in ResponseStatuses}

\* the connection attempt rejects with error; the store answers with storeErr
Throwing(error, storeErr) ==
  [Calm("INBOX") EXCEPT !.failAt = 1, !.err = error, !.storeErr = storeErr]

\* getUserLabels() or createLabel(label) with the session refusing to connect
ConnectFails ==
  /\ CanCall
  /\ \E error \in ThrownErrors : \E storeErr \in {NoError, StoreDown} :
       \/ Called(getUserLabels(Throwing(error, storeErr), FlatTree(boxes)))
       \/ Called(createLabel("Sent", Throwing(error, storeErr)))

ClassifierNext == ConnectFails \/ Return
ClassifierSpec == Init /\ [][ClassifierNext]_vars

(***************************************************************************)
(* Identifiers.  A string is a sequence of characters; a run of letters    *)
(* that split(':') and parseInt never look into ("INBOX", "draft-") is     *)
(* kept as one element.                                                    *)
(***************************************************************************)
Digits == <<"0", "1", "2", "3", "4", "5", "6", "7", "8", "9">>
IsDigit(ch) == \E i \in 1..Len(Digits) : Digits[i] = ch
DigitValue(ch) == (CHOOSE i \in 1..Len(Digits) : Digits[i] = ch) - 1
\* what parseInt returns for a string that does not start with a digit
NaN == -1
\* parts[1] of a string without a colon
Undefined == <<"undefined">>

\* `${n}` of a number
RECURSIVE ToDecimal(_)
ToDecimal(n) ==
  IF n < 10 THEN <<Digits[n + 1]>> ELSE ToDecimal(n \div 10) \o <<Digits[(n % 10) + 1]>>

\* `${mailbox}:${uid}`
encodeId(mailbox, uid) == mailbox \o <<":">> \o ToDecimal(uid)

\* String.prototype.split(':')
RECURSIVE split(_)
split(str) ==
  IF \A i \in 1..Len(str) : str[i] # ":" THEN <<str>>
  ELSE LET i == CHOOSE k \in 1..Len(str) : str[k] = ":" /\ \A j \in 1..(k - 1) : str[j] # ":"
       IN  <<SubSeq(str, 1, i - 1)>> \o split(SubSeq(str, i + 1, Len(str)))

\* parts[i], with JavaScript's index
PartAt(parts, i) == IF i + 1 <= Len(parts) THEN parts[i + 1] ELSE Undefined

\* the value of a string of digits
RECURSIVE DecimalValue(_)
DecimalValue(digits) ==
  IF Len(digits) = 0 THEN 0
  ELSE 10 * DecimalValue(SubSeq(digits, 1, Len(digits) - 1)) + DigitValue(digits[Len(digits)])

\* parseInt(str, 10): the digits str starts with, NaN when there is none
parseInt(str) ==
  LET n == Cardinality({k \in 1..Len(str) : \A j \in 1..k : IsDigit(str[j])})
  IN  IF n = 0 THEN NaN ELSE DecimalValue(SubSeq(str, 1, n))

\* the mailbox name of the model a string spells
Text(str) == IF Len(str) = 0 THEN "" ELSE IF Len(str) = 1 THEN str[1] ELSE "(other)"

\* parts[0] and parseInt(parts[1], 10) of an id, as the operations take them
decodeId(id) == <<Text(PartAt(split(id), 0)), parseInt(PartAt(split(id), 1))>>

\* the id list builds for a message, split and parsed as get does
roundTrip(mailbox, uid) ==
  [c |-> World,
   call |-> [op |-> "decode", status |-> "ok", err |-> NoError, raw |-> NoError, built |-> NoError,
             log |-> <<>>,
             in |-> [mailbox |-> mailbox, uid |-> uid, id |-> encodeId(mailbox, uid)],
             out |-> [mailbox |-> PartAt(split(encodeId(mailbox, uid)), 0),
                      uid |-> parseInt(PartAt(split(encodeId(mailbox, uid)), 1))]]]

\* mailbox names: one to MaxNameLen of a word, a colon and a path separator
NameChars == {"Work", ":", "/"}
MailboxNames == UNION {[1..n -> NameChars] : n \in 1..MaxNameLen}

\* ids a caller may hand in: those list builds, and ids without a UID part
RawIds ==
  {encodeId(<<m>>, u) : m \in {"INBOX", "Drafts"}, u \in 1..MaxUid}
  \cup {<<"INBOX">>, <<"INBOX", ":">>, <<"Drafts", ":", "x">>, <<"draft-">>}

RoundTrip ==
  /\ CanCall
  /\ \E mailbox \in MailboxNames, uid \in 1..MaxIdUid : Called(roundTrip(mailbox, uid))

GetRaw ==
  /\ CanCall
  /\ \E id \in RawIds : \E env \in {Calm("INBOX")} \cup Failing("INBOX", 3) :
       Called(get(decodeId(id), env))
DeleteRaw ==
  /\ CanCall
  /\ \E id \in RawIds : \E env \in {Calm("INBOX")} \cup Failing("INBOX", 3) :
       Called(delete(decodeId(id), env))
MarkAsReadRaw ==
  /\ CanCall
  /\ \E id \in RawIds : \E env \in {Calm("INBOX")} \cup Failing("INBOX", 3) :
       Called(markAsRead(<<decodeId(id)>>, env))
MarkAsUnreadRaw ==
  /\ CanCall
  /\ \E id \in RawIds : \E env \in {Calm("INBOX")} \cup Failing("INBOX", 3) :
       Called(markAsUnread(<<decodeId(id)>>, env))
ModifyLabelsRaw ==
  /\ CanCall
  /\ \E id \in RawIds : \E env \in {Calm("INBOX")} \cup Failing("INBOX", 3) :
       Called(modifyLabels(<<decodeId(id)>>, <<"Sent">>, <<>>, env))
GetDraftRaw ==
  /\ CanCall
  /\ \E id \in RawIds : \E env \in {Calm("Drafts")} \cup Failing("Drafts", 3) :
       Called(getDraft(decodeId(id), env))
GetAttachmentRaw ==
  /\ CanCall
  /\ \E id \in RawIds : \E env \in {Calm("INBOX")} \cup Failing("INBOX", 3) :
       Called(getAttachment(decodeId(id), env))

IdNext ==
  \/ RoundTrip \/ GetRaw \/ DeleteRaw \/ MarkAsReadRaw \/ MarkAsUnreadRaw
  \/ ModifyLabelsRaw \/ GetDraftRaw \/ GetAttachmentRaw \/ Return
IdSpec == Init /\ [][IdNext]_vars

(***************************************************************************)
(* normalizeMailbox on its own.                                            *)
(***************************************************************************)
\* the capital of a small letter
UpperOf(ch) ==
  IF \E k \in 1..Len(Lower) : Lower[k] = ch
  THEN Upper[CHOOSE k \in 1..Len(Lower) : Lower[k] = ch]
  ELSE ch

\* a word in every mix of small and capital letters
RECURSIVE Spellings(_)
Spellings(word) ==
  IF Len(word) = 0 THEN {<<>>}
  ELSE {<<ch>> \o rest : ch \in {Head(word), UpperOf(Head(word))}, rest \in Spellings(Tail(word))}

\* the folder names handed to normalizeMailbox: the cases of the switch and
\* names it does not know, in every mix of small and capital letters
SwitchCases ==
  {<<"i", "n", "b", "o", "x">>, <<"s", "e", "n", "t">>, <<"d", "r", "a", "f", "t", "s">>, <<"b", "i", "n">>, <<"t", "r", "a", "s", "h">>, <<"s", "p", "a", "m">>, <<"a", "r", "c", "h", "i", "v", "e">>}
UnknownNames ==
  {<<"w", "o", "r", "k">>, <<"b", "i", "n", "s">>, <<"i", "n">>, <<" ", "s", "e", "n", "t">>, <<>>}
FolderStrings == UNION {Spellings(w) : w \in SwitchCases \cup UnknownNames}

\* normalizeMailbox(folder), and normalizeMailbox of what it returned
normalized(folder) ==
  [c |-> World,
   call |-> [op |-> "normalizeMailbox", status |-> "ok", err |-> NoError, raw |-> NoError,
             built |-> NoError, log |-> <<>>,
             in |-> [folder |-> folder],
             out |-> [mailbox |-> normalizeMailbox(folder),
                      again |-> normalizeMailbox(normalizeMailbox(folder))]]]

Normalize ==
  /\ CanCall
  /\ \E folder \in FolderStrings : Called(normalized(folder))

NormalizeNext == Normalize \/ Return
NormalizeSpec == Init /\ [][NormalizeNext]_vars

(***************************************************************************)
(* getUserLabels on servers with nested mailboxes.                         *)
(***************************************************************************)
\* the names a mailbox of the tree may have under its parent
BoxNames == {"Work", "Clients"}

\* the objects imap.getBoxes may answer with: up to depth levels, the names
\* under one parent distinct
RECURSIVE BoxTrees(_)
BoxTrees(depth) ==
  IF depth = 0 THEN {<<>>}
  ELSE {<<>>}
       \cup {<<[name |-> n, children |-> t]>> : n \in BoxNames, t \in BoxTrees(depth - 1)}
       \cup {<<[name |-> p[1], children |-> t1], [name |-> p[2], children |-> t2]>> :
               p \in {q \in BoxNames \X BoxNames : q[1] # q[2]},
               t1 \in BoxTrees(depth - 1), t2 \in BoxTrees(depth - 1)}

GetNestedLabels ==
  /\ CanCall
  /\ \E tree \in BoxTrees(MaxDepth) :
       \E env \in {Calm("INBOX"), Throwing(Raw("ECONNREFUSED", TRUE, {}), NoError)} :
         Called(getUserLabels(env, tree))

LabelsNext == GetNestedLabels \/ Return
LabelsSpec == Init /\ [][LabelsNext]_vars

(***************************************************************************)
(* The constructor: the servers the adapter's sessions are opened to.      *)
(* An email address and a host name are the sequences of their characters. *)
(***************************************************************************)
\* String.prototype.split(sep), for a separator of one character
RECURSIVE splitOn(_, _)
splitOn(str, sep) ==
  IF \A i \in 1..Len(str) : str[i] # sep THEN <<str>>
  ELSE LET i == CHOOSE k \in 1..Len(str) : str[k] = sep /\ \A j \in 1..(k - 1) : str[j] # sep
       IN  <<SubSeq(str, 1, i - 1)>> \o splitOn(SubSeq(str, i + 1, Len(str)), sep)

\* the labels of a host name joined by dots
RECURSIVE Dotted(_)
Dotted(labels) ==
  IF Len(labels) = 1 THEN labels[1] ELSE labels[1] \o <<".">> \o Dotted(Tail(labels))

Com == <<"c", "o", "m">>
GmailCom == Dotted(<<<<"g", "m", "a", "i", "l">>, Com>>)
OutlookCom == Dotted(<<<<"o", "u", "t", "l", "o", "o", "k">>, Com>>)
HotmailCom == Dotted(<<<<"h", "o", "t", "m", "a", "i", "l">>, Com>>)
LiveCom == Dotted(<<<<"l", "i", "v", "e">>, Com>>)
YahooCom == Dotted(<<<<"y", "a", "h", "o", "o">>, Com>>)
AolCom == Dotted(<<<<"a", "o", "l">>, Com>>)
IcloudCom == Dotted(<<<<"i", "c", "l", "o", "u", "d">>, Com>>)
ImapWord == <<"i", "m", "a", "p">>
SmtpWord == <<"s", "m", "t", "p">>
MailWord == <<"m", "a", "i", "l">>
Office365Com == Dotted(<<<<"o", "f", "f", "i", "c", "e", "3", "6", "5">>, Com>>)

\* email.split('@')[1]
domainOf(email) == PartAt(splitOn(email, "@"), 1)

\* getImapHost with the switch on the domain as the address spells it
getImapHostAsGiven(email) ==
  LET domain == domainOf(email)
  IN  CASE domain = GmailCom -> Dotted(<<ImapWord, GmailCom>>)
        [] domain \in {OutlookCom, HotmailCom, LiveCom} ->
             Dotted(<<<<"o", "u", "t", "l", "o", "o", "k">>, Office365Com>>)
        [] domain = YahooCom -> Dotted(<<ImapWord, MailWord, YahooCom>>)
        [] domain = AolCom -> Dotted(<<ImapWord, AolCom>>)
        [] domain = IcloudCom -> Dotted(<<ImapWord, MailWord, <<"m", "e">>, Com>>)
        [] OTHER -> Dotted(<<ImapWord, domain>>)

getImapHost(email) ==
  LET domain == toLowerCase(domainOf(email))
  IN  CASE domain = GmailCom -> Dotted(<<ImapWord, GmailCom>>)
        [] domain \in {OutlookCom, HotmailCom, LiveCom} ->
             Dotted(<<<<"o", "u", "t", "l", "o", "o", "k">>, Office365Com>>)
        [] domain = YahooCom -> Dotted(<<ImapWord, MailWord, YahooCom>>)
        [] domain = AolCom -> Dotted(<<ImapWord, AolCom>>)
        [] domain = IcloudCom -> Dotted(<<ImapWord, MailWord, <<"m", "e">>, Com>>)
        [] OTHER -> Dotted(<<ImapWord, domain>>)

getSmtpHost(email) ==
  LET domain == toLowerCase(domainOf(email))
  IN  CASE domain = GmailCom -> Dotted(<<SmtpWord, GmailCom>>)
        [] domain \in {OutlookCom, HotmailCom, LiveCom} -> Dotted(<<SmtpWord, Office365Com>>)
        [] domain = YahooCom -> Dotted(<<SmtpWord, MailWord, YahooCom>>)
        [] domain = AolCom -> Dotted(<<SmtpWord, AolCom>>)
        [] domain = IcloudCom -> Dotted(<<SmtpWord, MailWord, <<"m", "e">>, Com>>)
        [] OTHER -> Dotted(<<SmtpWord, domain>>)

\* the ports the constructor writes down
ImapTlsPort == 993
SmtpTlsPort == 465

\* new ImapMailManager(config): the options of this.imap and of this.smtp.
\* Of config the constructor reads auth.email and auth.accessToken.
ImapMailManager(config) ==
  [imap |-> [user |-> config.auth.email, host |-> getImapHost(config.auth.email),
             port |-> ImapTlsPort],
   smtp |-> [user |-> config.auth.email, host |-> getSmtpHost(config.auth.email),
             port |-> SmtpTlsPort]]

\* the domains of the provider table, and domains the table does not have
ProviderDomains ==
  {GmailCom, OutlookCom, HotmailCom, LiveCom, YahooCom, AolCom, IcloudCom}
OtherDomains ==
  {Dotted(<<<<"c", "u", "s", "t", "o", "m">>, Com>>),
   Dotted(<<<<"g", "m", "a", "i", "l">>, <<"c", "o">>>>),
   Dotted(<<<<"x">>, AolCom>>),
   Dotted(<<<<"a", "o", "l">>, <<"d", "e">>>>)}
\* the addresses of the accounts: user@domain, the domain in every mix of
\* small and capital letters
UserWord == <<"u", "s", "e", "r">>
Emails ==
  {UserWord \o <<"@">> \o d : d \in UNION {Spellings(w) : w \in ProviderDomains \cup OtherDomains}}

\* an adapter constructed for an account without overrides
constructed(email) ==
  [c |-> World,
   call |-> [op |-> "construct", status |-> "ok", err |-> NoError, raw |-> NoError,
             built |-> NoError, log |-> <<>>,
             in |-> [email |-> email],
             out |-> ImapMailManager([auth |-> [email |-> email]])]]

Construct ==
  /\ CanCall
  /\ \E email \in Emails : Called(constructed(email))

HostNext == Construct \/ Return
HostSpec == Init /\ [][HostNext]_vars

(***************************************************************************)
(* The connect route of the IMAP connections router.                       *)
(***************************************************************************)
\* an optional port the request leaves out
NoPort == -1
\* a || b of JavaScript, for strings and for numbers
OrString(a, b) == IF a = Undefined \/ a = <<>> THEN b ELSE a
OrNumber(a, b) == IF a = NoPort \/ a = 0 THEN b ELSE a

\* the server and port the route tests the credentials against
validated(input) ==
  [host |-> OrString(input.imapServer, Dotted(<<ImapWord, domainOf(input.email)>>)),
   port |-> OrNumber(input.imapPort, 993)]

\* the values of the row the route inserts into imapConnection
connectionRow(input) ==
  [email |-> input.email,
   imapServer |-> OrString(input.imapServer, Dotted(<<ImapWord, domainOf(input.email)>>)),
   smtpServer |-> OrString(input.smtpServer, Dotted(<<SmtpWord, domainOf(input.email)>>)),
   imapPort |-> OrNumber(input.imapPort, 993),
   smtpPort |-> OrNumber(input.smtpPort, 465)]

\* createDriver('imap', {auth: {userId, accessToken, refreshToken, email}})
createDriver(input) == ImapMailManager([auth |-> [email |-> input.email]])

\* the servers that accept the account's credentials decide how the calls
\* of a session opened to host and port go
SessionTo(options, accepting) ==
  IF [host |-> options.host, port |-> options.port] \in accepting
  THEN Calm("INBOX")
  ELSE Throwing(Raw("ECONNREFUSED", TRUE, {}), NoError)

\* the rejection of the test connection, and of the driver test
Unauthorized == Raw("UNAUTHORIZED", TRUE, {})
InternalServerError == Raw("INTERNAL_SERVER_ERROR", TRUE, {})

\* the route once the credentials passed the test: row inserted, driver
\* created, driver.list({folder: 'INBOX', maxResults: 1}) answered with
\* listed; the row is deleted again when that call threw
connected(input, row, driver, listed) ==
  [c |-> listed.c,
   call |-> [op |-> "connect",
             status |-> listed.call.status,
             err |-> IF listed.call.status = "ok" THEN NoError ELSE InternalServerError,
             raw |-> listed.call.raw, built |-> listed.call.built, log |-> listed.call.log,
             in |-> input,
             out |-> [authorized |-> TRUE, validated |-> validated(input), row |-> row,
                      deleted |-> listed.call.status # "ok", driver |-> driver]]]

\* connect(input), the servers of accepting taking the credentials
connect(input, accepting) ==
  IF validated(input) \notin accepting
  THEN [c |-> World,
        call |-> [op |-> "connect", status |-> "error", err |-> Unauthorized,
                  raw |-> Raw("ECONNREFUSED", TRUE, {}), built |-> NoError,
                  log |-> <<[cmd |-> "connect", box |-> NoBox, uids |-> <<>>, ok |-> FALSE]>>,
                  in |-> input,
                  out |-> [authorized |-> FALSE, validated |-> validated(input)]]]
  ELSE connected(input, connectionRow(input), createDriver(input),
                 list(<<"I", "N", "B", "O", "X">>, FALSE, 1, Null,
                      SessionTo(createDriver(input).imap, accepting)))

\* the requests of the connection form: the account, and the overrides it
\* may carry (left out, empty, or a value)
CustomCom == Dotted(<<<<"c", "u", "s", "t", "o", "m">>, Com>>)
ConnectInputs ==
  [email : {UserWord \o <<"@">> \o d :
              d \in {CustomCom, GmailCom, <<"G", "m", "a", "i", "l", ".", "c", "o", "m">>}},
   imapServer : {Undefined, <<>>, Dotted(<<MailWord, CustomCom>>), Dotted(<<ImapWord, CustomCom>>)},
   smtpServer : {Undefined, Dotted(<<MailWord, CustomCom>>)},
   imapPort : {NoPort, 0, 143, 993},
   smtpPort : {NoPort, 587}]

Connect ==
  /\ CanCall
  /\ \E input \in ConnectInputs :
       \E accepting \in SUBSET {validated(input),
                                [host |-> createDriver(input).imap.host,
                                 port |-> createDriver(input).imap.port]} :
         Called(connect(input, accepting))

ConnectNext == Connect \/ Return
ConnectSpec == Init /\ [][ConnectNext]_vars

(***************************************************************************)
(* The connections router: the rows the connect route stores, the list of *)
(* a user's connections, and the removal of one.                           *)
(***************************************************************************)
\* !x of JavaScript for a text column: null and '' are falsy
Falsy(x) == x = Null

\* the ids createId() hands out, one per call and never twice
ImapIds == <<"i1", "i2", "i3", "i4">>
createId(n) == ImapIds[n + 1]

\* db.insert(imapConnection).values({...}) of the route
imapRow(id, userId, input) ==
  [id |-> id, userId |-> userId, accessToken |-> input.password, refreshToken |-> Null]
    @@ connectionRow(input)

\* the unique constraint on (user_id, email) of mail0_imap_connection
Duplicate(rows, userId, email) == \E r \in rows : r.userId = userId /\ r.email = email

\* what db.delete(imapConnection).where({id: connectionId}) can do: where
\* takes an SQL condition, the route hands it a plain object, so the
\* statement is either rejected or read as the equality it spells
WhereOutcomes == {"rejected", "matched"}
deleteWhereObject(rows, id, where) ==
  IF where = "matched" THEN {r \in rows : r.id # id} ELSE rows

\* what the route leaves and reports once the credentials passed the test
\* and the row went in: res is the answer of the driver test
driverTested(database, userId, id, input, where, res) ==
  [c |-> res.c,
   call |-> [op |-> "imapConnect", status |-> res.call.status, err |-> res.call.err,
             raw |-> res.call.raw, built |-> res.call.built, log |-> res.call.log,
             in |-> [user |-> userId, input |-> input],
             out |-> [connectionId |-> id, inserted |-> TRUE,
                      where |-> IF res.call.status = "ok" THEN "none" ELSE where]],
   db |-> [database EXCEPT !.imapConnection =
             IF res.call.status = "ok" THEN @ \cup {imapRow(id, userId, input)}
             ELSE deleteWhereObject(@ \cup {imapRow(id, userId, input)}, id, where)]]

\* the route without a row of its own: the credential test failed, or the
\* insert ran into the unique constraint
notInserted(database, userId, input, res, err) ==
  [c |-> World,
   call |-> [op |-> "imapConnect", status |-> "error", err |-> err,
             raw |-> res.call.raw, built |-> NoError,
             log |-> <<[cmd |-> "connect", box |-> NoBox, uids |-> <<>>, ok |-> res.call.out.authorized]>>,
             in |-> [user |-> userId, input |-> input],
             out |-> [connectionId |-> NoConnection, inserted |-> FALSE, where |-> "none"]],
   db |-> database]

\* imapRouter.connect for the user of the session
imapConnect(database, userId, id, input, where, res) ==
  IF ~res.call.out.authorized THEN notInserted(database, userId, input, res, Unauthorized)
  ELSE IF Duplicate(database.imapConnection, userId, input.email)
       THEN notInserted(database, userId, input, res, InternalServerError)
       ELSE driverTested(database, userId, id, input, where, res)

\* the columns list selects from connection, and from imapConnection with
\* name, picture and providerId added
selectedColumns(r, name, providerId) ==
  [id |-> r.id, email |-> r.email, name |-> name, picture |-> Null,
   providerId |-> providerId, accessToken |-> r.accessToken, refreshToken |-> r.refreshToken]

\* what list returns for the combined connections
listed(connections) ==
  [connections |-> {[id |-> c.id, email |-> c.email, name |-> c.name, picture |-> c.picture,
                     providerId |-> c.providerId] : c \in connections},
   disconnectedIds |-> {c.id : c \in {k \in connections :
                                        Falsy(k.accessToken) \/ Falsy(k.refreshToken)}}]

\* connectionsRouter.list
connectionsList(database, userId) ==
  listed({selectedColumns(r, r.name, r.providerId) :
            r \in {k \in database.connection : k.userId = userId}}
         \cup {selectedColumns(row, PartAt(splitOn(row.email, "@"), 0), "imap") :
                 row \in {k \in database.imapConnection : k.userId = userId}})

\* connectionsRouter.setDefault: NOT_FOUND unless the caller owns the connection
foundConnection(database, userId, connectionId) ==
  \E r \in database.connection : r.id = connectionId /\ r.userId = userId
connectionsSetDefault(database, userId, connectionId) ==
  IF foundConnection(database, userId, connectionId)
  THEN [database EXCEPT !.user[userId] = connectionId]
  ELSE database

\* connectionsRouter.delete: the delete carries a where on id and userId,
\* the update of user_ carries none
connectionsDelete(database, session, connectionId) ==
  [database EXCEPT
     !.connection = {r \in @ : ~(r.id = connectionId /\ r.userId = session.user)},
     !.user = IF connectionId = session.connectionId
              THEN [u \in Users |-> NoConnection] ELSE @]

\* the call record of a route that runs no mail command
RouteCall(op, status, in, out) ==
  [op |-> op, status |-> status, err |-> NoError, raw |-> NoError, built |-> NoError,
   log |-> <<>>, in |-> in, out |-> out]

\* the requests of the connection form to the connect route
RouteInputs ==
  [email : {UserWord \o <<"@">> \o d : d \in {CustomCom, GmailCom}},
   password : {<<"p", "w">>},
   imapServer : {Undefined, Dotted(<<MailWord, CustomCom>>)},
   smtpServer : {Undefined}, imapPort : {NoPort}, smtpPort : {NoPort}]

\* the ids a request may name, and the sessions: a user, and the connection
\* the user is working on
ConnectionIds == {"c1", "c2", "c3"} \cup Range(ImapIds)
Owned(database, userId) ==
  {r.id : r \in {k \in database.connection \cup database.imapConnection : k.userId = userId}}
Sessions ==
  UNION {[user : {u}, connectionId : Owned(db, u) \cup {NoConnection}] : u \in Users}

ImapConnect ==
  /\ CanCall
  /\ \E userId \in Users, input \in RouteInputs, where \in WhereOutcomes :
       \E accepting \in SUBSET {validated(input),
                                [host |-> createDriver(input).imap.host,
                                 port |-> createDriver(input).imap.port]} :
         Called(imapConnect(db, userId, createId(ncalls), input, where, connect(input, accepting)))

ConnectionsList ==
  /\ CanCall
  /\ \E userId \in Users :
       Called([c |-> World,
               call |-> RouteCall("connectionsList", "ok", [user |-> userId],
                                  connectionsList(db, userId))])

ConnectionsSetDefault ==
  /\ CanCall
  /\ \E userId \in Users, connectionId \in ConnectionIds :
       Called([c |-> World,
               call |-> RouteCall("setDefault",
                                  IF foundConnection(db, userId, connectionId) THEN "ok" ELSE "error",
                                  [user |-> userId, connectionId |-> connectionId],
                                  [found |-> foundConnection(db, userId, connectionId)]),
               db |-> connectionsSetDefault(db, userId, connectionId)])

ConnectionsDelete ==
  /\ CanCall
  /\ \E session \in Sessions, connectionId \in ConnectionIds :
       Called([c |-> World,
               call |-> RouteCall("connectionsDelete", "ok",
                                  [user |-> session.user, connectionId |-> connectionId],
                                  [reset |-> connectionId = session.connectionId]),
               db |-> connectionsDelete(db, session, connectionId)])

RouteNext ==
  ImapConnect \/ ConnectionsList \/ ConnectionsSetDefault \/ ConnectionsDelete \/ Return
RouteSpec == Init /\ [][RouteNext]_vars

(***************************************************************************)
(* The AI provider: provider selection, the Ollama interface and the       *)
(* OpenAI-compatible client behind it.  A call is run in a setting: the    *)
(* environment variables, how the Ollama server answers, how an attempt to *)
(* start it goes, and the modelMappings of the client.                     *)
(***************************************************************************)
\* an option, or an environment variable, that is not set
Unset == "undefined"

\* env.OLLAMA_ENABLED === 'true'
getAIProvider(setting) == IF setting.OLLAMA_ENABLED = "true" THEN "ollama" ELSE "openai"

\* OllamaClient.ensureOllamaRunning: the answer of GET /api/tags when there
\* is one; when the request throws, `ollama serve` is spawned and the
\* promise resolves true on 'listening', false on 'error' or after 5 s
ensureOllamaRunning(setting) ==
  CASE setting.tags = "ok" -> TRUE
    [] setting.tags = "not ok" -> FALSE
    [] OTHER -> setting.spawn = "listening"

\* the modelMappings the constructor of OllamaCompatClient writes
DefaultMappings ==
  [m \in {"gpt-3.5-turbo", "gpt-4", "gpt-4o", "text-embedding-ada-002",
          "text-embedding-3-small", "text-embedding-3-large"} |->
     IF m \in {"gpt-3.5-turbo", "gpt-4", "gpt-4o"} THEN "llama3" ELSE "nomic-embed"]

\* this.modelMappings[openaiModel] || 'llama3'
getOllamaModel(modelMappings, openaiModel) ==
  IF openaiModel \in DOMAIN modelMappings /\ modelMappings[openaiModel] # ""
  THEN modelMappings[openaiModel]
  ELSE "llama3"

\* the defaultModel of OllamaAI: 'llama3', or env.OLLAMA_DEFAULT_MODEL when set
defaultModel(setting) ==
  IF setting.OLLAMA_DEFAULT_MODEL \notin {Unset, ""} THEN setting.OLLAMA_DEFAULT_MODEL
  ELSE "llama3"

\* a || b for an option that may be unset
OrOption(a, b) == IF a \in {Unset, ""} THEN b ELSE a

\* what a call of the provider layer answers: the provider that served it
\* and the request that provider was sent, or the message of the Error thrown
AiAnswer(op, setting, in, provider, request, message) ==
  [c |-> World,
   call |-> [op |-> op, status |-> IF message = "" THEN "ok" ELSE "error",
             err |-> IF message = "" THEN NoError ELSE Raw("undefined", TRUE, {}),
             raw |-> NoError, built |-> NoError, log |-> <<>>,
             in |-> [setting |-> setting, args |-> in],
             out |-> [provider |-> provider, request |-> request, message |-> message]]]

\* OllamaAI.generateChatCompletion then OllamaCompatClient.createChatCompletion
ollamaChatCompletion(setting, options) ==
  IF ~ensureOllamaRunning(setting)
  THEN AiAnswer("generateChatCompletion", setting, options, "ollama", <<>>,
                "Ollama is not running and could not be started")
  ELSE AiAnswer("generateChatCompletion", setting, options, "ollama",
                <<[url |-> "/api/generate",
                   model |-> getOllamaModel(setting.modelMappings,
                                            OrOption(options.model, defaultModel(setting))),
                   stream |-> options.stream = "true"]>>,
                IF setting.api = "ok" THEN "" ELSE "Ollama API error")

\* generateChatCompletion(messages, options) of ai-provider.ts
generateChatCompletion(setting, options) ==
  IF getAIProvider(setting) = "ollama"
  THEN ollamaChatCompletion(setting, options)
  ELSE AiAnswer("generateChatCompletion", setting, options, "openai", <<>>,
                "OpenAI implementation not provided")

\* OllamaAI.generateEmbeddings then OllamaCompatClient.createEmbedding: one
\* request for each text
ollamaEmbeddings(setting, texts) ==
  IF ~ensureOllamaRunning(setting)
  THEN AiAnswer("generateEmbeddings", setting, texts, "ollama", <<>>,
                "Ollama is not running and could not be started")
  ELSE AiAnswer("generateEmbeddings", setting, texts, "ollama",
                [i \in 1..texts |->
                   [url |-> "/api/embeddings",
                    model |-> getOllamaModel(setting.modelMappings, "nomic-embed"),
                    stream |-> FALSE]],
                IF setting.api = "ok" \/ texts = 0 THEN "" ELSE "Ollama API error")

\* generateEmbeddings(texts) of ai-provider.ts
generateEmbeddings(setting, texts) ==
  IF getAIProvider(setting) = "ollama"
  THEN ollamaEmbeddings(setting, texts)
  ELSE AiAnswer("generateEmbeddings", setting, texts, "openai", <<>>,
                "OpenAI implementation not provided")

\* compatClient.getOllamaModel(openaiModel)
mappedModel(setting, openaiModel) ==
  [c |-> World,
   call |-> [op |-> "getOllamaModel", status |-> "ok", err |-> NoError, raw |-> NoError,
             built |-> NoError, log |-> <<>>,
             in |-> [setting |-> setting, args |-> openaiModel],
             out |-> getOllamaModel(setting.modelMappings, openaiModel)]]

\* the settings the calls are made in
Settings ==
  [OLLAMA_ENABLED : {"true", "false", Unset},
   OLLAMA_DEFAULT_MODEL : {Unset, "mistral"},
   tags : {"ok", "not ok", "throws"},
   spawn : {"listening", "error", "timeout"},
   api : {"ok", "not ok"},
   modelMappings : {DefaultMappings, [m \in {"gpt-4"} |-> "mistral"]}]

\* the model names a caller asks for
ModelNames == {"gpt-4", "gpt-3.5-turbo", "text-embedding-ada-002", "gpt-4o", "mistral"}

GenerateChatCompletion ==
  /\ CanCall
  /\ \E setting \in Settings :
       \E options \in [model : {Unset, "gpt-4", "mistral"}, stream : {Unset, "true"}] :
         Called(generateChatCompletion(setting, options))

\* texts is a string, or an array of texts strings
MaxTexts == 2
GenerateEmbeddings ==
  /\ CanCall
  /\ \E setting \in Settings : \E texts \in 0..MaxTexts :
       Called(generateEmbeddings(setting, texts))

GetOllamaModel ==
  /\ CanCall
  /\ \E setting \in Settings : \E openaiModel \in ModelNames :
       Called(mappedModel(setting, openaiModel))

AiNext == GenerateChatCompletion \/ GenerateEmbeddings \/ GetOllamaModel \/ Return
AiSpec == Init /\ [][AiNext]_vars

(***************************************************************************)
(* The suspension points of a call.  A call is pending from its start to   *)
(* the moment its promise settles; while it is pending the server ends the *)
(* connection attempt and each command the call awaits, one after the      *)
(* other.  What the call leaves when it settles is what the operation      *)
(* leaves when the commands ended that way.                                *)
(***************************************************************************)
\* the calls followed through their awaits
Requests == [op : {"list", "getDraft", "getUserLabels", "markAsRead"}, id : Ids]

\* the operation of request with the commands ending as env says
Run(request, env) ==
  CASE request.op = "list" -> list(<<"i", "n", "b", "o", "x">>, FALSE, MaxPageSize, Null, env)
    [] request.op = "getDraft" -> getDraft(request.id, env)
    [] request.op = "getUserLabels" -> getUserLabels(env, FlatTree(boxes))
    [] OTHER -> markAsRead(<<request.id>>, env)

\* the ways a step may end with an error: the error, and how the store
\* answers should the catch block ask it to delete the connection
Failures ==
  {f \in RawErrors \X {NoError, StoreDown} :
     f[2] = StoreDown => f[1].code = "AUTHENTICATIONFAILED"}

\* the k-th step of the call ends with failure f
FailsAt(k, f) ==
  [Calm("INBOX") EXCEPT !.failAt = k, !.err = f[1], !.storeErr = f[2]]

\* the commands the call awaits when none of them fails
Awaits(request) == Run(request, Calm("INBOX")).call.log

\* A call that starts.  The server does not change while the call is
\* pending, so what the call will leave is settled by how its awaited steps
\* end: returned when all end well, thrown[k][f] when the k-th ends with f.
Started(request, awaits) ==
  [op |-> request.op, status |-> "pending", err |-> NoError, raw |-> NoError,
   built |-> NoError, log |-> <<>>,
   in |-> [request |-> request, closed |-> FALSE, awaits |-> awaits,
           returned |-> Run(request, Calm("INBOX")),
           thrown |-> [k \in 1..Len(awaits) |-> [f \in Failures |-> Run(request, FailsAt(k, f))]]],
   out |-> [threads |-> <<>>]]

\* the command a pending call is suspended on
IsPending == call.status = "pending" /\ ~call.in.closed
Awaited == call.in.awaits[Len(call.log) + 1].cmd

\* the promise of the call settles
Settled(res) == Deliver(res) /\ UNCHANGED <<ncalls, pager>>

\* a public operation is called: connectImap registers its 'ready' and
\* 'error' listeners and calls imap.connect()
Begin ==
  /\ CanCall
  /\ \E request \in Requests :
       /\ call' = Started(request, Awaits(request))
       /\ ncalls' = ncalls + 1
       /\ UNCHANGED <<mbox, order, boxes, uidNext, flags, conn, selected, stored, pager, db>>

\* the awaited step ended well and was not the last one
Advance ==
  /\ Len(call.log) + 1 < Len(call.in.awaits)
  /\ call' = [call EXCEPT !.log = SubSeq(call.in.awaits, 1, Len(call.log) + 1)]
  /\ UNCHANGED <<mbox, order, boxes, uidNext, flags, conn, selected, stored, ncalls, pager, db>>

\* the awaited step ended well and was the last one: the call returns
Finish ==
  /\ Len(call.log) + 1 = Len(call.in.awaits)
  /\ Settled(call.in.returned)

\* the awaited step ended with an error: the call throws what the catch
\* block makes of it
Reject == \E f \in Failures : Settled(call.in.thrown[Len(call.log) + 1][f])

\* the connection attempt ends with 'ready'
ConnectReady ==
  /\ IsPending /\ Awaited = "connect"
  /\ Advance \/ Finish

\* the connection attempt ends with 'error'
ConnectError ==
  /\ IsPending /\ Awaited = "connect"
  /\ Reject

\* the connection attempt ends with 'end' and 'close' and neither 'ready'
\* nor 'error': connectImap listens to neither, its promise stays pending
ConnectCloses ==
  /\ IsPending /\ Awaited = "connect"
  /\ call' = [call EXCEPT !.in.closed = TRUE]
  /\ conn' = "disconnected"
  /\ UNCHANGED <<mbox, order, boxes, uidNext, flags, selected, stored, ncalls, pager, db>>

\* a command ends with success: its callback without err, the fetch's 'end'
CommandSucceeds ==
  /\ IsPending /\ Awaited # "connect"
  /\ Advance \/ Finish

\* a command ends with failure: its callback with err, the fetch's 'error'
CommandFails ==
  /\ IsPending /\ Awaited # "connect"
  /\ Reject

\* the caller takes the outcome of a call that settled
TakeOutcome == call.status # "pending" /\ Return

\* what the server does to what a call awaits
ServerEnds == ConnectReady \/ ConnectError \/ ConnectCloses \/ CommandSucceeds \/ CommandFails

AwaitNext ==
  \/ Begin \/ ConnectReady \/ ConnectError \/ ConnectCloses
  \/ CommandSucceeds \/ CommandFails \/ TakeOutcome
\* the server ends every connection attempt and every command
AwaitSpec == Init /\ [][AwaitNext]_vars /\ WF_call(ServerEnds)

Next ==
  \/ List \/ ListDrafts \/ Get \/ Create \/ Delete
  \/ ModifyLabels \/ MarkAsRead \/ MarkAsUnread
  \/ CreateDraft \/ GetDraft \/ SendDraft \/ Count \/ GetAttachment
  \/ GetUserLabels \/ CreateLabel \/ UpdateLabel \/ DeleteLabel
  \/ Return
Spec == Init /\ [][Next]_vars

(***************************************************************************)
(* Properties of list and listDrafts.                                      *)
(***************************************************************************)
IsListing == call.op \in {"list", "listDrafts"}
Listed == IsListing /\ call.status = "ok"
\* the UIDs of the selected mailbox, newest first
Newest(box) == SortDesc(order[box])

\* C1: a client that follows nextPageToken from the first page on eventually
\* receives nextPageToken == null.
C1_PaginationTerminates == <>(pgState = "done")

\* C2: the thread ids of the pages, concatenated, repeat no UID, and once the
\* token is null they are the UIDs of the mailbox, descending.
C2_PagesAreTheMailbox ==
  /\ NoDup(pgAcc)
  /\ (pgState = "done" /\ ~pgFull) => pgAcc = Newest(PagedBox)

\* C3: a call with page token "L:n" returns no message at or above the last
\* UID of the page the token came from, L + 1: every returned UID is <= L.
C3_ResumesBelowToken ==
  (Listed /\ call.in.pageToken # Null) =>
     \A i \in 1..Len(call.out.fetched) : call.out.fetched[i] <= call.in.pageToken[1]

\* C4: list without a page token returns as thread ids the min(maxResults, |S|)
\* largest UIDs of the mailbox, in descending order, and its token, if any,
\* resumes strictly below the last of them.
C4_FirstPageIsNewest ==
  (call.op = "list" /\ call.status = "ok" /\ call.in.pageToken = Null /\ ~call.in.q) =>
     /\ IdNumbers(call.out.threads) = Slice0(Newest(call.in.mailbox), call.in.maxResults)
     /\ call.out.nextPageToken # Null =>
          call.out.nextPageToken[1] < call.out.threads[Len(call.out.threads)][2]

\* C5: nextPageToken is non-null exactly when a matching UID remains below
\* the lowest UID of the returned page; an empty page has no token.
C5_TokenIffMoreRemain ==
  Listed =>
     LET page == Range(call.out.fetched)
         rest == {u \in Range(call.out.uids) : \A v \in page : u < v}
     IN  IF page = {} THEN call.out.nextPageToken = Null
         ELSE (call.out.nextPageToken # Null) <=> (rest # {})
C5_Witness ==
  /\ Listed /\ call.in.pageToken # Null /\ call.out.nextPageToken # Null
  /\ Len(call.out.fetched) = call.in.maxResults
  /\ \E u \in Range(call.out.uids) : \A i \in 1..Len(call.out.fetched) : u < call.out.fetched[i]

\* C6: when the search returns no UID the call succeeds with an empty page and
\* a null token and has issued no fetch.
C6_EmptySearchEmptyPage ==
  (IsListing /\ call.out.searched /\ call.out.uids = <<>>) =>
     /\ call.status = "ok"
     /\ call.out.threads = <<>>
     /\ call.out.nextPageToken = Null
     /\ \A i \in 1..Len(call.log) : call.log[i].cmd # "fetch"
C6_Witness ==
  /\ IsListing /\ call.out.searched /\ call.out.uids = <<>> /\ call.status = "ok"
  /\ call.in.pageToken # Null /\ mbox[call.in.mailbox] # {}

(***************************************************************************)
(* Properties of delete and create.                                        *)
(***************************************************************************)
\* the call issued cmd and the server answered it with success
Succeeded(cmd) == \E i \in 1..Len(call.log) : call.log[i].cmd = cmd /\ call.log[i].ok
FirstIndex(cmd) == CHOOSE i \in 1..Len(call.log) :
                     call.log[i].cmd = cmd /\ \A j \in 1..(i - 1) : call.log[j].cmd # cmd

\* C7: once connect and select succeeded, delete succeeds when the move to
\* Trash succeeds, succeeds when the move fails and \Deleted is set, fails
\* only when both fail, and sets the flag only after a failed move.
C7_DeleteFallsBack ==
  (call.op = "delete" /\ Succeeded("connect") /\ Succeeded("openBox")) =>
     LET mv == Issued(call.log, "move")
         fl == Issued(call.log, "addFlags")
     IN  /\ Len(mv) = 1 /\ mv[1].box = "Trash" /\ mv[1].uids = <<call.in.id[2]>>
         /\ mv[1].ok => (Len(fl) = 0 /\ call.status = "ok")
         /\ ~mv[1].ok =>
              /\ Len(fl) = 1 /\ fl[1].box = "\\Deleted" /\ fl[1].uids = <<call.in.id[2]>>
              /\ FirstIndex("move") < FirstIndex("addFlags")
              /\ (call.status = "ok") <=> fl[1].ok
C7_Witness ==
  /\ call.op = "delete" /\ call.status = "ok"
  /\ Len(Issued(call.log, "move")) = 1 /\ ~Issued(call.log, "move")[1].ok
  /\ <<call.in.id[1], call.in.id[2], "\\Deleted">> \in flags

\* C8: when the SMTP send of create succeeds, create returns the id of the
\* message sent, whatever fails while the copy is saved to Sent.
C8_SendOutlivesSave ==
  (call.op = "create" /\ Len(Issued(call.log, "sendMail")) >= 1 /\ Issued(call.log, "sendMail")[1].ok) =>
     /\ call.status = "ok"
     /\ call.out.id = MessageId(1)
C8_Witness ==
  /\ call.op = "create" /\ call.status = "ok"
  /\ \E i \in 1..Len(call.log) : ~call.log[i].ok

\* C9: after a successful create that reached the IMAP session and selected
\* Sent, the Sent mailbox holds one message more than before.
C9_SentHoldsCopy ==
  (call.op = "create" /\ call.status = "ok" /\ Succeeded("connect") /\ Succeeded("openBox")) =>
     Cardinality(mbox["Sent"]) = Cardinality(call.in.sentBefore) + 1

\* C10: every error that leaves a public operation is a StandardizedError
\* built by the catch block of withErrorHandler.
C10_OnlyClassifiedErrors == call.status = "error" => call.err.std

(***************************************************************************)
(* Properties of the classifier.                                           *)
(***************************************************************************)
\* the signatures of the rows, as the catch block tests them
IsConnectionError(e) == e.code \in {"ECONNREFUSED", "ETIMEDOUT", "ENOTFOUND"}
IsAuthError(e) == e.code \in {"AUTHENTICATIONFAILED", "INVALIDCREDENTIALS"}
IsTlsError(e) == e.code \in {"ETLSNOTCAPABLE", "ESSLNOTCAPABLE"}
IsQuotaError(e) == e.hasMsg /\ e.msg \cap {"quota", "storage"} # {}
IsSmtpError(e) == StartsWithSMTP(e.code)
IsCapabilityError(e) == e.hasMsg /\ e.msg \cap {"not supported", "capability"} # {}

\* the rows whose signature e carries, 1 (connection) to 6 (capability)
Rows(e) ==
  {k \in 1..6 : \/ k = 1 /\ IsConnectionError(e)
                \/ k = 2 /\ IsAuthError(e)
                \/ k = 3 /\ IsTlsError(e)
                \/ k = 4 /\ IsQuotaError(e)
                \/ k = 5 /\ IsSmtpError(e)
                \/ k = 6 /\ IsCapabilityError(e)}

\* kind, status and fatal of the rows 1 to 6
RowOf(k) ==
  CASE k = 1 -> [code |-> "CONNECTION_REFUSED", status |-> 503, fatal |-> TRUE]
    [] k = 2 -> [code |-> "AUTHENTICATION_ERROR", status |-> 401, fatal |-> TRUE]
    [] k = 3 -> [code |-> "TLS_ERROR", status |-> 502, fatal |-> FALSE]
    [] k = 4 -> [code |-> "QUOTA_ERROR", status |-> 507, fatal |-> FALSE]
    [] k = 5 -> [code |-> "SMTP_ERROR", status |-> 502, fatal |-> FALSE]
    [] k = 6 -> [code |-> "CAPABILITY_ERROR", status |-> 501, fatal |-> FALSE]

\* kind, status and fatal of the StandardizedError the catch block built
Built == [code |-> call.built.code, status |-> call.built.status, fatal |-> call.built.fatal]
Caught == call.status = "error" /\ call.built # NoError

C12_FirstMatchWins ==
  (Caught /\ Cardinality(Rows(call.raw)) >= 2) =>
    /\ call.built.std
    /\ \E k \in Rows(call.raw) : (\A j \in Rows(call.raw) : k <= j) /\ Built = RowOf(k)

\* an SMTP-coded error whose message says the feature is not supported
C12_Witness ==
  /\ Caught /\ Rows(call.raw) = {5, 6}
  /\ call.built.code = "SMTP_ERROR"

(***************************************************************************)
(* Properties of failed calls.                                             *)
(***************************************************************************)
\* the call ended with a StandardizedError
FailedClassified == call.status = "error" /\ call.err.std
\* deleteActiveConnection was called during the call
DeletionRequested == Issued(call.log, "deleteActiveConnection") # <<>>

\* C13: a call that fails with a classified error whose fatal is true has
\* requested the deletion of the stored connection record from the store by
\* then, and one whose fatal is false has not.
C13_FatalDeletesRecord ==
  FailedClassified => (call.err.fatal <=> DeletionRequested)

\* a command of the call failed and the same command, on the same mailbox and
\* messages, was issued again later in the call
Retried ==
  \E i \in 1..Len(call.log) : \E j \in (i + 1)..Len(call.log) :
    /\ ~call.log[i].ok
    /\ call.log[j].cmd = call.log[i].cmd
    /\ call.log[j].box = call.log[i].box
    /\ call.log[j].uids = call.log[i].uids

\* C14: within one public call no command that failed is issued again, and
\* a failed call delivers one StandardizedError.
C14_NeverRetries ==
  /\ ~Retried
  /\ call.status = "error" => (call.err.std /\ call.err = call.built)

(***************************************************************************)
(* Properties of the session.                                              *)
(***************************************************************************)
\* C15: a public operation that starts while the session is ready issues
\* no connection attempt.
C15_ConnectIsIdempotent ==
  [][(conn = "ready" /\ call.op = "idle" /\ call'.op # "idle")
       => Issued(call'.log, "connect") = <<>>]_vars

\* the commands sent over the IMAP session once it is ready
ImapCommands ==
  {"openBox", "search", "fetch", "addFlags", "delFlags", "move",
   "getBoxes", "addBox", "delBox", "renameBox"}
\* the connection attempt of the call ended in an error
ConnectFailed == \E i \in 1..Len(call.log) : call.log[i].cmd = "connect" /\ ~call.log[i].ok

\* every IMAP command of the call follows a connection attempt of the call
\* that reached ready, with no other attempt in between
ImapWorkFollowsReady ==
  \A j \in 1..Len(call.log) :
    call.log[j].cmd \in ImapCommands =>
      \E i \in 1..(j - 1) :
        /\ call.log[i].cmd = "connect" /\ call.log[i].ok
        /\ \A k \in (i + 1)..(j - 1) : call.log[k].cmd # "connect"

\* C16: a call performs IMAP work only after its connection attempt reached
\* ready; a call whose connection attempt ended in an error has issued no
\* IMAP command after it and fails with a classified error whose kind is
\* CONNECTION_REFUSED or AUTHENTICATION_ERROR.
C16_WorkOnlyWhenReady ==
  /\ ImapWorkFollowsReady
  /\ ConnectFailed =>
       /\ FailedClassified
       /\ call.err.code \in {"CONNECTION_REFUSED", "AUTHENTICATION_ERROR"}

\* C17: after a public operation ends with a classified error whose fatal is
\* true, the IMAP session is disconnected.
C17_FatalTearsDown ==
  (FailedClassified /\ call.err.fatal) => conn = "disconnected"

(***************************************************************************)
(* Properties of count, modifyLabels and get.                              *)
(***************************************************************************)
\* the select of folder was answered without err during the call
Selectable(folder) ==
  \E i \in 1..Len(call.log) :
    call.log[i].cmd = "openBox" /\ call.log[i].box = folder /\ call.log[i].ok

ListedIn(ids, m) == {ids[i][2] : i \in {j \in 1..Len(ids) : ids[j][1] = m}}

\* C19: modifyLabels moves the listed messages to addLabels[0] and to no
\* other mailbox, every one of them when it succeeds; with empty addLabels it
\* issues no select and no move; nothing else on the server changes, whatever
\* removeLabels holds.
C19_MovesToFirstLabel ==
  [][(call.op = "idle" /\ call'.op = "modifyLabels") =>
       LET ids == call'.in.ids
           add == call'.in.addLabels
           moves == Issued(call'.log, "move")
           selects == Issued(call'.log, "openBox")
       IN  /\ UNCHANGED boxes
           /\ Cardinality(flags') = Cardinality(flags)
           /\ add = <<>> =>
                /\ moves = <<>> /\ selects = <<>>
                /\ UNCHANGED <<mbox, order, uidNext, flags>>
           /\ add # <<>> =>
                /\ \A i \in 1..Len(moves) : moves[i].box = add[1] /\ moves[i].uids = <<ids[i][2]>>
                /\ \A i \in 1..Len(selects) : selects[i].box = ids[i][1]
                /\ \A m \in Mailboxes \ {add[1]} :
                     /\ mbox'[m] \subseteq mbox[m]
                     /\ mbox[m] \ mbox'[m] \subseteq ListedIn(ids, m)
           /\ (add # <<>> /\ call'.status = "ok") =>
                /\ Len(moves) = Len(ids) /\ Len(selects) = Len(ids)
                /\ \A m \in Mailboxes \ {add[1]} : mbox'[m] = mbox[m] \ ListedIn(ids, m)
                /\ Cardinality(mbox'[add[1]]) =
                     Cardinality(UNION {{<<m, u>> : u \in mbox[m]} : m \in Mailboxes})
                       - Cardinality(UNION {{<<m, u>> : u \in mbox'[m]} : m \in Mailboxes \ {add[1]}})]_vars

\* two messages moved into Sent by one call that also named labels to remove
C19_Witness ==
  /\ call.op = "modifyLabels" /\ call.status = "ok"
  /\ Len(call.in.ids) = 2 /\ call.in.addLabels # <<>> /\ call.in.removeLabels # <<>>
  /\ Len(SelectSeq(call.log, LAMBDA x : x.cmd = "move" /\ x.ok /\ x.box = "Sent")) = 2
  /\ Cardinality(mbox["Sent"]) >= 2

\* the \Seen flag of the message id addresses
SeenOf(id) == <<MailboxOrInbox(id), id[2], "\\Seen">>

\* C20: get(id) sets the seen flag of the addressed message and of no other
\* message; list and listDrafts leave every seen flag as it was.
C20_OnlyGetMarksSeen ==
  [][call.op = "idle" =>
       /\ call'.op = "get" =>
            /\ flags \subseteq flags'
            /\ flags' \ flags \subseteq {SeenOf(call'.in.id)}
            /\ call'.status = "ok" => SeenOf(call'.in.id) \in flags'
       /\ call'.op \in {"list", "listDrafts"} => flags' = flags]_vars

\* get answered for one message of a mailbox that holds another, unseen one
C20_Witness ==
  /\ call.op = "get" /\ call.status = "ok"
  /\ SeenOf(call.in.id) \in flags
  /\ \E u \in mbox[MailboxOrInbox(call.in.id)] :
       u # call.in.id[2] /\ <<MailboxOrInbox(call.in.id), u, "\\Seen">> \notin flags

(***************************************************************************)
(* Properties of the normalized message and of identifiers.                *)
(***************************************************************************)
\* C21: the message get returns has unread false exactly when the flags the
\* server holds for it when it is fetched contain \Seen.
C21_UnreadFollowsSeen ==
  [][(call.op = "idle" /\ call'.op = "get" /\ call'.status = "ok")
       => (call'.out.unread <=> SeenOf(call'.in.id) \notin flags)]_vars

\* C22: for every mailbox name, names with a colon or a '/' included, and
\* every UID, splitting and parsing the id mailbox:uid gives back the
\* mailbox name and the UID.
C22_IdRoundTrip ==
  call.op = "decode" =>
    /\ call.out.mailbox = call.in.mailbox
    /\ call.out.uid = call.in.uid

\* the operations that take ids, and the UIDs decoded from the ids of the call
TakesIds ==
  call.op \in {"get", "delete", "markAsRead", "markAsUnread", "modifyLabels",
               "getDraft", "getAttachment"}
UidsOfCall ==
  IF call.op \in {"markAsRead", "markAsUnread", "modifyLabels"}
  THEN {call.in.ids[i][2] : i \in 1..Len(call.in.ids)}
  ELSE {call.in.id[2]}

\* C23: for an id whose UID part is missing or not a number, the operations
\* that take ids issue no fetch, flag or move command for the invalid UID,
\* and the call, when no command of it fails, ends in a not-found error.
C23_InvalidUidIsNotFound ==
  (TakesIds /\ NaN \in UidsOfCall) =>
    /\ \A i \in 1..Len(call.log) :
         call.log[i].cmd \in {"fetch", "addFlags", "delFlags", "move"}
           => NaN \notin Range(call.log[i].uids)
    /\ (\A i \in 1..Len(call.log) : call.log[i].ok)
         => (call.status = "error" /\ call.raw = NotFoundError)

\* folder is key in some mix of small and capital letters
SpelledAs(folder, key) ==
  /\ Len(folder) = Len(key)
  /\ \A i \in 1..Len(key) : folder[i] \in {key[i], UpperOf(key[i])}

\* the fixed table of the folder names: key and mailbox
FolderTable ==
  {<<<<"i", "n", "b", "o", "x">>, <<"I", "N", "B", "O", "X">>>>,
   <<<<"s", "e", "n", "t">>, <<"S", "e", "n", "t">>>>,
   <<<<"d", "r", "a", "f", "t", "s">>, <<"D", "r", "a", "f", "t", "s">>>>,
   <<<<"t", "r", "a", "s", "h">>, <<"T", "r", "a", "s", "h">>>>,
   <<<<"b", "i", "n">>, <<"T", "r", "a", "s", "h">>>>,
   <<<<"s", "p", "a", "m">>, <<"S", "p", "a", "m">>>>,
   <<<<"a", "r", "c", "h", "i", "v", "e">>, <<"A", "r", "c", "h", "i", "v", "e">>>>}

\* C24: normalizeMailbox maps a name of the fixed table, in any mix of small
\* and capital letters, to the table's mailbox, returns every other name
\* unchanged, and applied to its own result returns that result.
C24_NormalizeFolder ==
  call.op = "normalizeMailbox" =>
    /\ \A row \in FolderTable : SpelledAs(call.in.folder, row[1]) => call.out.mailbox = row[2]
    /\ (\A row \in FolderTable : ~SpelledAs(call.in.folder, row[1]))
         => call.out.mailbox = call.in.folder
    /\ call.out.again = call.out.mailbox

\* 'BiN' normalized to Trash
C24_Witness ==
  /\ call.op = "normalizeMailbox"
  /\ call.in.folder = <<"B", "i", "N">>
  /\ call.out.mailbox = <<"T", "r", "a", "s", "h">>
  /\ call.out.again = <<"T", "r", "a", "s", "h">>

\* C25: every thread id list or listDrafts returns is the selected mailbox
\* and the UID of the message whose headers were fetched for that thread.
C25_ThreadIdIsMailboxAndUid ==
  Listed =>
    \A i \in 1..Len(call.out.threads) :
      call.out.threads[i] = <<call.in.mailbox, call.out.fetched[i]>>

(***************************************************************************)
(* Properties of getUserLabels.                                            *)
(***************************************************************************)
\* the mailboxes of a tree, each as the sequence of names from the root
RECURSIVE Paths(_)
Paths(tree) ==
  UNION {{<<tree[i].name>>} \cup {<<tree[i].name>> \o p : p \in Paths(tree[i].children)} :
           i \in 1..Len(tree)}

\* a path with '/' between its names
RECURSIVE Joined(_)
Joined(path) ==
  IF Len(path) <= 1 THEN path ELSE <<Head(path), "/">> \o Joined(Tail(path))

\* C26: getUserLabels returns one folder-typed label per mailbox of the
\* server's tree, at every depth, with id = name = the '/'-joined path from
\* the root; no label is missing and none appears twice.
C26_LabelPerMailbox ==
  (call.op = "getUserLabels" /\ call.status = "ok") =>
    LET labels == call.out.labels
    IN  /\ {labels[i].id : i \in 1..Len(labels)} = {Joined(p) : p \in Paths(call.in.tree)}
        /\ Len(labels) = Cardinality(Paths(call.in.tree))
        /\ \A i \in 1..Len(labels) : labels[i].name = labels[i].id /\ labels[i].type = "folder"

\* a tree three levels deep, with its innermost mailbox among the labels
C26_Witness ==
  /\ call.op = "getUserLabels" /\ call.status = "ok"
  /\ \E p \in Paths(call.in.tree) : Len(p) = 3
  /\ \E i \in 1..Len(call.out.labels) :
       call.out.labels[i].id = <<"Work", "/", "Clients", "/", "Work">>

\* the provider table: domain, IMAP host, SMTP host
ProviderTable ==
  {<<GmailCom, Dotted(<<ImapWord, GmailCom>>), Dotted(<<SmtpWord, GmailCom>>)>>,
   <<OutlookCom, Dotted(<<<<"o", "u", "t", "l", "o", "o", "k">>, Office365Com>>),
     Dotted(<<SmtpWord, Office365Com>>)>>,
   <<HotmailCom, Dotted(<<<<"o", "u", "t", "l", "o", "o", "k">>, Office365Com>>),
     Dotted(<<SmtpWord, Office365Com>>)>>,
   <<LiveCom, Dotted(<<<<"o", "u", "t", "l", "o", "o", "k">>, Office365Com>>),
     Dotted(<<SmtpWord, Office365Com>>)>>,
   <<YahooCom, Dotted(<<ImapWord, MailWord, YahooCom>>), Dotted(<<SmtpWord, MailWord, YahooCom>>)>>,
   <<AolCom, Dotted(<<ImapWord, AolCom>>), Dotted(<<SmtpWord, AolCom>>)>>,
   <<IcloudCom, Dotted(<<ImapWord, MailWord, <<"m", "e">>, Com>>),
     Dotted(<<SmtpWord, MailWord, <<"m", "e">>, Com>>)>>}

\* what follows the '@' of an address
AfterAt(email) ==
  SubSeq(email, (CHOOSE k \in 1..Len(email) : email[k] = "@") + 1, Len(email))

\* host is service.<domain>, the domain in small or capital letters
ServiceOf(host, service, domain) ==
  /\ Len(host) = Len(service) + 1 + Len(domain)
  /\ SubSeq(host, 1, Len(service) + 1) = service \o <<".">>
  /\ SpelledAs(domain, toLowerCase(SubSeq(host, Len(service) + 2, Len(host))))

\* C27: the adapter constructed for an address has the IMAP and SMTP hosts
\* of the provider table when the address's domain is, in any mix of small
\* and capital letters, a domain of the table, and imap.<domain> and
\* smtp.<domain> for every other domain.
C27_HostsFromDomain ==
  call.op = "construct" =>
    /\ \A row \in ProviderTable :
         SpelledAs(AfterAt(call.in.email), row[1])
           => call.out.imap.host = row[2] /\ call.out.smtp.host = row[3]
    /\ (\A row \in ProviderTable : ~SpelledAs(AfterAt(call.in.email), row[1]))
         => /\ ServiceOf(call.out.imap.host, ImapWord, AfterAt(call.in.email))
            /\ ServiceOf(call.out.smtp.host, SmtpWord, AfterAt(call.in.email))

\* user@Hotmail.COM is served by outlook.office365.com and smtp.office365.com
C27_Witness ==
  /\ call.op = "construct"
  /\ AfterAt(call.in.email) = <<"H", "o", "t", "m", "a", "i", "l", ".", "C", "O", "M">>
  /\ call.out.imap.host = Dotted(<<<<"o", "u", "t", "l", "o", "o", "k">>, Office365Com>>)
  /\ call.out.smtp.host = Dotted(<<SmtpWord, Office365Com>>)

\* the request carries a server or a port of its own
Overrides(input) ==
  \/ input.imapServer \notin {Undefined, <<>>}
  \/ input.smtpServer \notin {Undefined, <<>>}
  \/ input.imapPort \notin {NoPort, 0}
  \/ input.smtpPort \notin {NoPort, 0}

\* C28: when the connect request carries server or port overrides, the
\* adapter created for the account opens its IMAP session to the server and
\* port the credentials were validated against, and its IMAP and SMTP
\* sessions to the servers and ports stored for the account.
C28_AdapterUsesOverrides ==
  (call.op = "connect" /\ call.out.authorized /\ Overrides(call.in)) =>
    /\ call.out.driver.imap.host = call.out.validated.host
    /\ call.out.driver.imap.port = call.out.validated.port
    /\ call.out.driver.imap.host = call.out.row.imapServer
    /\ call.out.driver.imap.port = call.out.row.imapPort
    /\ call.out.driver.smtp.host = call.out.row.smtpServer
    /\ call.out.driver.smtp.port = call.out.row.smtpPort

\* the local provider is selected and Ollama neither answers nor starts
OllamaUnavailable(setting) ==
  /\ setting.OLLAMA_ENABLED = "true"
  /\ setting.tags = "throws"
  /\ setting.spawn # "listening"

\* C29: with OLLAMA_ENABLED = 'true' and Ollama neither running nor
\* startable, generateChatCompletion and generateEmbeddings are served by
\* the OpenAI provider and do not fail.
C29_FallsBackToOpenAI ==
  (call.op \in {"generateChatCompletion", "generateEmbeddings"}
     /\ OllamaUnavailable(call.in.setting))
    => (call.status = "ok" /\ call.out.provider = "openai")

\* C30: getOllamaModel answers 'llama2' for gpt-4, gpt-3.5-turbo and
\* text-embedding-ada-002 under the default mappings, and the configured
\* target for every name modelMappings contains.
C30_ModelMapping ==
  call.op = "getOllamaModel" =>
    /\ (call.in.setting.modelMappings = DefaultMappings
          /\ call.in.args \in {"gpt-4", "gpt-3.5-turbo", "text-embedding-ada-002"})
         => call.out = "llama2"
    /\ call.in.args \in DOMAIN call.in.setting.modelMappings
         => call.out = call.in.setting.modelMappings[call.in.args]

\* the operations that loop over identifiers, and the commands of their loops
LoopOps == {"markAsRead", "markAsUnread", "modifyLabels"}
LoopCommands == {"addFlags", "delFlags", "move"}
\* the commands a call issued on the session, in the order of issue
SessionLog == SelectSeq(call.log, LAMBDA e : e.cmd # "deleteActiveConnection")

\* C31: markAsRead, markAsUnread and modifyLabels take their identifiers one
\* after another: after the connect, the k-th select is that of the mailbox
\* of id k, the command that follows it is the flag or move command for the
\* UID of id k, issued after that select succeeded and before the select of
\* id k+1, so the command for id (m,u) finds m selected.
C31_OneIdAtATime ==
  call.op \in LoopOps =>
    \A i \in 1..Len(SessionLog) :
      /\ i = 1 => SessionLog[i].cmd = "connect"
      /\ i < Len(SessionLog) => SessionLog[i].ok
      /\ (i > 1 /\ i % 2 = 0) =>
           /\ SessionLog[i].cmd = "openBox"
           /\ SessionLog[i].box = call.in.ids[i \div 2][1]
      /\ (i > 1 /\ i % 2 = 1) =>
           /\ SessionLog[i].cmd \in LoopCommands
           /\ SessionLog[i].uids = <<call.in.ids[(i - 1) \div 2][2]>>
           /\ SessionLog[i - 1].cmd = "openBox"
           /\ SessionLog[i - 1].box = call.in.ids[(i - 1) \div 2][1]

\* markAsRead of a message of INBOX and one of Drafts, both flagged
C31_Witness ==
  /\ call.op = "markAsRead"
  /\ call.status = "ok"
  /\ Len(call.in.ids) = 2
  /\ call.in.ids[1][1] # call.in.ids[2][1]
  /\ Len(call.log) = 5
  /\ call.log[5].cmd = "addFlags"

\* the commands that touch a draft: select, move, flag
DraftCommands == {"openBox", "move", "addFlags", "delFlags"}
\* the log holds a transmission that succeeded before its i-th entry
SentBefore(log, i) == \E j \in 1..(i - 1) : log[j].cmd = "sendMail" /\ log[j].ok

\* C32: sendDraft sends before it touches the draft: every select, move and
\* flag command of the call follows a successful smtp.sendMail, and a call
\* whose send did not succeed issues none of them and leaves the messages
\* and flags of every mailbox as they were.
C32_SendsBeforeDelete ==
  [][(call.op = "idle" /\ call'.op = "sendDraft") =>
       /\ \A i \in 1..Len(call'.log) :
            call'.log[i].cmd \in DraftCommands => SentBefore(call'.log, i)
       /\ ~SentBefore(call'.log, Len(call'.log) + 1) => UNCHANGED <<mbox, order, flags>>]_vars

\* a sendDraft that sent and then moved the draft to Trash
C32_Witness ==
  /\ call.op = "sendDraft"
  /\ call.status = "ok"
  /\ \E i \in 1..Len(call.log) :
       call.log[i].cmd = "move" /\ call.log[i].ok /\ SentBefore(call.log, i)

\* the commands of a call, by name, in the order of issue
CommandsOf(log) == [i \in 1..Len(log) |-> log[i].cmd]

\* C33: a createDraft that returns success appends nothing: it answers a
\* made-up 'draft-...' id, the messages, order and flags of Drafts and of
\* every other mailbox are what they were, and on the session it has
\* connected and selected Drafts, nothing else.
C33_CreateDraftAppendsNothing ==
  [][(call.op = "idle" /\ call'.op = "createDraft" /\ call'.status = "ok") =>
       /\ call'.out.success /\ call'.out.id = <<"draft-">>
       /\ UNCHANGED <<mbox, order, boxes, uidNext, flags, stored>>
       /\ conn' = "ready" /\ selected' = "Drafts"
       /\ CommandsOf(call'.log) = <<"connect", "sanitizeTipTapHtml", "openBox">>]_vars

\* a createDraft that succeeded on a server whose Drafts holds a message
C33_Witness ==
  /\ call.op = "createDraft"
  /\ call.status = "ok"
  /\ call.out.id = <<"draft-">>
  /\ selected = "Drafts"
  /\ mbox["Drafts"] # {}
  /\ mbox["Drafts"] = call.in.draftsBefore

\* the transmissions of a call that the SMTP server accepted
Transmissions(log) == Cardinality({i \in 1..Len(log) : log[i].cmd = "sendMail" /\ log[i].ok})

\* C34: a create that succeeds has transmitted the message over SMTP exactly
\* once, however its save-to-Sent step went.
C34_SendsExactlyOnce ==
  (call.op = "create" /\ call.status = "ok") => Transmissions(call.log) = 1

\* C35: when the delete nested in sendDraft throws an error its own wrapper
\* has classified, the error sendDraft throws has that error's code, status
\* and fatal flag.
C35_ClassificationSurvives ==
  (call.op = "sendDraft" /\ call.status = "error" /\ call.raw.std) =>
    /\ call.err.code = call.raw.code
    /\ call.err.status = call.raw.status
    /\ call.err.fatal = call.raw.fatal

\* the command for the j-th id of the call was issued and succeeded
Applied(log, j) ==
  /\ Len(log) >= 2 * j + 1
  /\ log[2 * j + 1].cmd \in LoopCommands
  /\ log[2 * j + 1].ok

\* C36: when markAsRead, markAsUnread or modifyLabels throws, the ids whose
\* command succeeded are a prefix of the list, each of them has its change
\* on the server (\Seen set, \Seen cleared, the message gone from its
\* mailbox), every other id's message is as it was, and the caller is
\* handed the error.
C36_NoRollback ==
  [][(call.op = "idle" /\ call'.op \in LoopOps /\ call'.status = "error") =>
       /\ call'.err # NoError
       /\ \A j \in 1..Len(call'.in.ids) :
            LET m == call'.in.ids[j][1]
                u == call'.in.ids[j][2]
            IN  /\ Applied(call'.log, j) => \A i \in 1..(j - 1) : Applied(call'.log, i)
                /\ (Applied(call'.log, j) /\ u \in mbox[m]) =>
                     CASE call'.op = "markAsRead" -> <<m, u, "\\Seen">> \in flags'
                       [] call'.op = "markAsUnread" -> <<m, u, "\\Seen">> \notin flags'
                       [] OTHER -> u \notin mbox'[m]
                /\ ~Applied(call'.log, j) =>
                     /\ (u \in mbox'[m]) <=> (u \in mbox[m])
                     /\ (<<m, u, "\\Seen">> \in flags') <=> (<<m, u, "\\Seen">> \in flags)]_vars

\* a markAsRead of two messages that failed at the second: the first is
\* seen, the second is not
C36_Witness ==
  /\ call.op = "markAsRead"
  /\ call.status = "error"
  /\ Len(call.in.ids) = 2
  /\ Applied(call.log, 1) /\ ~Applied(call.log, 2)
  /\ call.in.ids[1][2] \in mbox[call.in.ids[1][1]]
  /\ call.in.ids[2][2] \in mbox[call.in.ids[2][1]]
  /\ <<call.in.ids[1][1], call.in.ids[1][2], "\\Seen">> \in flags
  /\ <<call.in.ids[2][1], call.in.ids[2][2], "\\Seen">> \notin flags

\* C37: a call that is pending eventually settles, by returning or by
\* throwing, when the server ends every connection attempt and every
\* command, whatever the way it ends them.
C37_EveryCallCompletes == (call.status = "pending") ~> (call.status \in {"ok", "error"})

\* C38: the connect route leaves no record of its own behind when it
\* reports an error and removes no other record: after an error the table
\* imapConnection is as it was before the call, and after success it holds
\* exactly one more row, the one with the id the call returned.
C38_NoRecordAfterError ==
  [][(call.op = "idle" /\ call'.op = "imapConnect") =>
       /\ call'.status = "error" => db'.imapConnection = db.imapConnection
       /\ call'.status = "ok" =>
            /\ \E r \in db'.imapConnection : r.id = call'.out.connectionId
            /\ {r \in db'.imapConnection : r.id # call'.out.connectionId} = db.imapConnection]_vars

\* C39: while its stored password is present, the IMAP connection a
\* successful connect created is among the connections list returns to its
\* user, with providerId 'imap', and is not in disconnectedIds.
ImapRowsOf(userId) ==
  {r \in db.imapConnection : r.userId = userId /\ ~Falsy(r.accessToken)}
C39_ListedAndConnected ==
  call.op = "connectionsList" =>
    \A r \in ImapRowsOf(call.in.user) :
      /\ \E k \in call.out.connections : k.id = r.id /\ k.providerId = "imap"
      /\ r.id \notin call.out.disconnectedIds

\* C40: connections.delete changes the state of the caller only: it removes
\* at most the caller's connection with the given id, and the rows and the
\* defaultConnectionId of every other user stay as they were.
C40_DeleteTouchesCallerOnly ==
  [][(call.op = "idle" /\ call'.op = "connectionsDelete") =>
       /\ db.connection \ db'.connection \subseteq
            {r \in db.connection : r.id = call'.in.connectionId /\ r.userId = call'.in.user}
       /\ db'.connection \subseteq db.connection
       /\ db'.imapConnection = db.imapConnection
       /\ \A u \in Users \ {call'.in.user} : db'.user[u] = db.user[u]]_vars

====
